---------------------------- MODULE Spec2Model ----------------------------
(***************************************************************************)
(* A model of the MBTI chat repository (azeus/mtbi): the response          *)
(* post-processor format_response, the template simulator                  *)
(* simulate_mbti_response, the Llama Cloud adapter generate_llama_response *)
(* and the fallback pipeline IntegratedMBTISystem.generate_response with   *)
(* its two MBTIMultiChat.chat_with_type predecessors.                      *)
(*                                                                         *)
(* Python str values are TLA+ strings; Len, \o and SubSeq act on them      *)
(* character by character.  Emoji are written as their code points in      *)
(* ASCII ("<U+1F60A>"), since the module text is ASCII.                    *)
(***************************************************************************)
EXTENDS Integers, Sequences, FiniteSets, TLC

VARIABLES
    \* ---- the process environment
    OPENAI_AVAILABLE,       \* the openai package imports
    openai_api_key,         \* an OPENAI_API_KEY is configured (secrets or environment)
    LLAMA_CLOUD_AVAILABLE,  \* is_llama_available() at import of combined_integration
    \* ---- the chat system instance under call
    impl,                   \* which class it is: "combined" | "mbti_chat" | "mtbi_chat"
    services,               \* IntegratedMBTISystem.services
    model_allocation,       \* IntegratedMBTISystem.model_allocation
    use_llm,                \* mbti_chat.MBTIMultiChat.use_llm (index and llm are set with it)
    history_len,            \* len(mtbi_chat.MBTIMultiChat.conversation_history)
    \* ---- the call in progress
    pc,                     \* "idle" | "llama_index" | "llama_cloud" | "openai" |
                            \* "direct_openai" | "simulation" | "done"
    call_query,             \* the query argument of the call
    call_type,              \* the mbti_type argument of the call
    model,                  \* the local `model` of generate_response
    attempt,                \* the loop variable of the retry loop in progress
    result,                 \* the returned string (meaningful when pc = "done" and ~raised)
    raised,                 \* the call ended by an exception reaching the caller
    source,                 \* which branch produced the result
    log,                    \* the backend calls, sleeps and simulator calls of this call
    \* ---- the multi_chat or group_discussion in progress
    conv_pc,                \* "none" | "start" | "loop" | "calling" | "returned" | "raised"
    conv_op,                \* "" | "multi_chat" | "group_discussion"
    conv_topic,             \* the user_query / topic argument
    conv_args,              \* the other arguments: <<types_to_include, num_types>> or
                            \* <<participants, num_rounds>> as the caller gave them
    selected_types,         \* multi_chat: the local selected_types
    responses,              \* multi_chat: the dict `responses`
    participants,           \* group_discussion: the list `participants`
    num_rounds,             \* group_discussion: the argument num_rounds
    round_num,              \* group_discussion: the round in progress
    idx,                    \* position of the loop over selected_types / participants
    round_responses,        \* group_discussion: the dict `round_responses`
    new_responses,          \* group_discussion: the dict `new_responses`
    discussion,             \* group_discussion: the list `discussion`
    calls,                  \* the finished respond calls of the conversation, in order
    \* ---- formatter harness: one text formatted once, then once more
    fpc,            \* "off" | "input" | "once" | "twice"
    raw_text,       \* the text handed to format_response
    fmt_type,       \* the mbti_type handed to format_response
    fmt_rnd,        \* the random draws consumed by the two applications
    fmt_out,        \* format_response(raw_text, fmt_type)
    fmt_out2,       \* format_response(fmt_out, fmt_type)
    \* ---- the Llama Cloud adapter (llama_integration.py) called on its own
    llama_module_available, \* its module flag LLAMA_CLOUD_AVAILABLE: llama_cloud imports
    llama_api_key,          \* a LLAMA_CLOUD_API_KEY is configured
    llama_client,           \* the module global llama_client: None or "client"
    ad_pc,                  \* "off" | "idle" | "loop" | "done"
    ad_attempt,             \* the loop variable of generate_llama_response
    ad_result,              \* what generate_llama_response returned (when ad_pc = "done")
    ad_raised,              \* an exception left generate_llama_response
    ad_log,                 \* the backend calls and sleeps of the adapter call
    \* ---- the Weaviate schema and create_mbti_schema (schema_setup.py)
    sc_pc,                  \* "off" | "on"
    wv_client,              \* get_weaviate_client() gives a client (not None)
    is_v4,                  \* hasattr(weaviate, 'WeaviateClient')
    schema_exists,          \* the class MBTIPersonality exists on the server
    schema_log,             \* the requests sent to the server, over all calls
    schema_returns,         \* the return values of the calls, in order
    \* ---- IntegratedMBTISystem.__init__ in progress
    setup_pc,               \* "off" | "openai" | "test" | "llama_index" | "done"
    setup_attempt,          \* the loop variable of the connection test of _setup_openai
    setup_log,              \* the test requests and sleeps of _setup_openai
    \* ---- the Streamlit session of app.py
    app_pc,                 \* "off" | "on"
    chat_history,           \* st.session_state.chat_history
    app_inputs,             \* how many user inputs the script has been run for
    app_last,               \* the last run: its mode, input, what the chat system did
    \* ---- generate_mbti_data (data_import.py) in progress
    im_pc,                  \* "off" | "start" | "check" | "generate" | "next" | "returned"
    type_idx,               \* position of the loop over MBTI_TYPES
    category_idx,           \* position of the loop over CATEGORIES
    completed,              \* the local `completed`
    im_exists,              \* the server holds data for the pair at hand
    im_checked,             \* what the existence check did: "" | "found" | "empty" | "raised"
    im_attempt,             \* the loop variable of the retry loop
    im_log,                 \* the completion requests and sleeps for the pair at hand
    im_adds,                \* the objects added to the batch for the pair at hand
    im_returned             \* the return value: "" | "True" | "False"

envVars == <<OPENAI_AVAILABLE, openai_api_key, LLAMA_CLOUD_AVAILABLE>>

instVars == <<impl, services, model_allocation, use_llm, history_len>>

callVars == <<pc, call_query, call_type, model, attempt, result, raised, source, log>>

convVars == <<conv_pc, conv_op, conv_topic, conv_args, selected_types, responses, participants,
              num_rounds, round_num, idx, round_responses, new_responses, discussion,
              calls>>

fmtVars == <<fpc, raw_text, fmt_type, fmt_rnd, fmt_out, fmt_out2>>

adVars == <<llama_module_available, llama_api_key, llama_client, ad_pc, ad_attempt,
            ad_result, ad_raised, ad_log>>

\* the variables of the harnesses that stand beside the chat system
schemaVars == <<sc_pc, wv_client, is_v4, schema_exists, schema_log, schema_returns>>

setupVars == <<setup_pc, setup_attempt, setup_log>>

appVars == <<app_pc, chat_history, app_inputs, app_last>>

importVars == <<im_pc, type_idx, category_idx, completed, im_exists, im_checked, im_attempt,
                im_log, im_adds, im_returned>>

auxVars == <<adVars, schemaVars, setupVars, appVars, importVars>>

vars == <<envVars, instVars, callVars, convVars, fmtVars, auxVars>>

(***************************************************************************)
(* Python str methods                                                      *)
(***************************************************************************)

\* str.startswith(prefix)
StartsWith(s, prefix) ==
    /\ Len(s) >= Len(prefix)
    /\ SubSeq(s, 1, Len(prefix)) = prefix

\* str.endswith(suffix)
EndsWith(s, suffix) ==
    /\ Len(s) >= Len(suffix)
    /\ SubSeq(s, Len(s) - Len(suffix) + 1, Len(s)) = suffix

\* sub in s
Contains(s, sub) ==
    \E i \in 1..(Len(s) - Len(sub) + 1) : SubSeq(s, i, i + Len(sub) - 1) = sub

\* s[n:]
DropFirst(s, n) == SubSeq(s, n + 1, Len(s))

\* the characters str.strip() removes
Whitespace == {" ", "\t", "\n", "\r", "\f"}

RECURSIVE LStrip(_)
LStrip(s) ==
    IF Len(s) > 0 /\ SubSeq(s, 1, 1) \in Whitespace
    THEN LStrip(SubSeq(s, 2, Len(s)))
    ELSE s

RECURSIVE RStrip(_)
RStrip(s) ==
    IF Len(s) > 0 /\ SubSeq(s, Len(s), Len(s)) \in Whitespace
    THEN RStrip(SubSeq(s, 1, Len(s) - 1))
    ELSE s

\* str.strip()
Strip(s) == RStrip(LStrip(s))

UpperCase == "ABCDEFGHIJKLMNOPQRSTUVWXYZ"
LowerCase == "abcdefghijklmnopqrstuvwxyz"

UpperLetters == { SubSeq(UpperCase, i, i) : i \in 1..Len(UpperCase) }

LowerOf ==
    [c \in UpperLetters |->
        LET i == CHOOSE j \in 1..Len(UpperCase) : SubSeq(UpperCase, j, j) = c
        IN  SubSeq(LowerCase, i, i)]

LowerChar(c) == IF c \in UpperLetters THEN LowerOf[c] ELSE c

RECURSIVE Lower(_)
\* str.lower()
Lower(s) ==
    IF Len(s) = 0 THEN ""
    ELSE IF Len(s) = 1 THEN LowerChar(s)
    ELSE LET half == Len(s) \div 2
         IN  Lower(SubSeq(s, 1, half)) \o Lower(SubSeq(s, half + 1, Len(s)))

(***************************************************************************)
(* The catalog                                                             *)
(***************************************************************************)

MBTI_TYPES ==
    << "INTJ", "INTP", "ENTJ", "ENTP",
       "INFJ", "INFP", "ENFJ", "ENFP",
       "ISTJ", "ISFJ", "ESTJ", "ESFJ",
       "ISTP", "ISFP", "ESTP", "ESFP" >>

CatalogTypes == { MBTI_TYPES[i] : i \in 1..Len(MBTI_TYPES) }

\* a type code that is not in the catalog
UnknownType == "XXXX"

TypeCodes == CatalogTypes \cup {UnknownType}

(***************************************************************************)
(* format_response (combined_integration.py) and its twin                  *)
(* _format_ai_response (mbti_chat.py)                                      *)
(***************************************************************************)

prefixes_to_remove(mbti_type) ==
    << mbti_type \o ":",
       "As an MBTI personality, ",
       "As an " \o mbti_type \o " personality, ",
       "As an " \o mbti_type \o ", ",
       "As a " \o mbti_type \o ", ",
       "Response: " >>

\* one turn of the loop body: strip the prefix if the text starts with it
StripOne(response, prefix) ==
    IF StartsWith(response, prefix)
    THEN Strip(DropFirst(response, Len(prefix)))
    ELSE response

RECURSIVE StripFrom(_, _, _)
\* the for loop from list position i on
StripFrom(response, prefixes, i) ==
    IF i > Len(prefixes) THEN response
    ELSE StripFrom(StripOne(response, prefixes[i]), prefixes, i + 1)

\* a loop that stops at the first prefix it has removed
RECURSIVE StripFromFirstOnly(_, _, _)
StripFromFirstOnly(response, prefixes, i) ==
    IF i > Len(prefixes) THEN response
    ELSE IF StartsWith(response, prefixes[i])
         THEN StripOne(response, prefixes[i])
         ELSE StripFromFirstOnly(response, prefixes, i + 1)

StripPrefixes_break(response, mbti_type) ==
    StripFromFirstOnly(response, prefixes_to_remove(mbti_type), 1)

\* for prefix in prefixes_to_remove: ...
StripPrefixes(response, mbti_type) ==
    StripFrom(response, prefixes_to_remove(mbti_type), 1)

EmphaticTypes == {"ENFP", "ESFP", "ENFJ", "ENTP"}
EmojiTypes == {"ENFP", "ESFP"}

emoji_options ==
    << "<U+1F60A>", "<U+2728>", "<U+1F4AB>", "<U+1F31F>",
       "<U+1F4A1>", "<U+1F389>", "<U+1F308>" >>

\* an emphasis test that looks at the last character only
NeedsBang_trailing(response) ==
    ~EndsWith(response, "!") /\ ~EndsWith(response, "?")

\* "!" not in response and not response.endswith("?")
NeedsBang(response) ==
    ~Contains(response, "!") /\ ~EndsWith(response, "?")

AddEmphasis(response, mbti_type) ==
    IF mbti_type \in EmphaticTypes /\ NeedsBang(response)
    THEN response \o "!"
    ELSE response

(***************************************************************************)
(* The random draws of one format_response call: 0 stands for              *)
(* random.random() >= 0.5 (no emoji), k in 1..7 for random.random() < 0.5  *)
(* followed by random.choice picking emoji_options[k].  A type outside     *)
(* EmojiTypes short-circuits before random.random() and draws nothing.     *)
(***************************************************************************)
RandomDraws(mbti_type) ==
    IF mbti_type \in EmojiTypes THEN 0..Len(emoji_options) ELSE {0}

AddEmoji(response, mbti_type, rnd) ==
    IF mbti_type \in EmphaticTypes /\ mbti_type \in EmojiTypes /\ rnd # 0
    THEN response \o " " \o emoji_options[rnd]
    ELSE response

format_response(response, mbti_type, rnd) ==
    AddEmoji(AddEmphasis(StripPrefixes(response, mbti_type), mbti_type),
             mbti_type, rnd)

(***************************************************************************)
(* simulate_mbti_response (utils.py)                                       *)
(***************************************************************************)

\* the if/elif chain of a branch ended without a return
NoReply == ""


\* the greetings dict, in insertion order: each key with responses[0]
greetings ==
    << [key |-> "hello", first |-> "Hi there!"],
       [key |-> "hi", first |-> "Hi!"],
       [key |-> "hey", first |-> "Hey!"],
       [key |-> "wassup", first |-> "Hey!"],
       [key |-> "how are you", first |-> "I'm doing well, thanks for asking!"] >>

\* the reply of the greeting branch, built on responses[0]
GreetingReply(mbti_type, first) ==
    IF mbti_type \in {"ENFP", "ESFP", "ENFJ", "ESFJ"}
    THEN first \o " So great to hear from you! <U+1F60A> What's been on your mind lately?"
    ELSE IF mbti_type \in {"ENTP", "ESTP", "ENTJ", "ESTJ"}
    THEN first \o " What's happening? Anything interesting going on?"
    ELSE IF mbti_type \in {"INFP", "ISFP", "INFJ", "ISFJ"}
    THEN first \o " It's nice to connect with you today. How are you feeling?"
    ELSE first \o " What can I help you with today?"

\* the reply of the "where is everyone" branch
WhereReply(mbti_type) ==
    IF mbti_type \in {"ENFP", "ESFP"}
    THEN "Oh, I was wondering the same thing! Maybe they're all having fun somewhere without us? Let's go find them! <U+1F389>"
    ELSE IF mbti_type \in {"ENTJ", "ESTJ"}
    THEN "Everyone's probably busy with their tasks. I've been organizing my schedule for maximum efficiency. Did you need someone specific?"
    ELSE IF mbti_type \in {"INFJ", "ENFJ"}
    THEN "I've been wondering if everyone's okay actually. I hope they're just busy and not dealing with anything difficult. How about we check in on them?"
    ELSE IF mbti_type \in {"INTJ", "INTP"}
    THEN "I hadn't really noticed their absence. I've been caught up in my own thoughts. Is there something specific you wanted to discuss with the group?"
    ELSE "Not sure where everyone went! What were you hoping to do with the group?"

\* the reply of the sports branch; NoReply when the chain falls through
SportsReply(mbti_type) ==
    IF mbti_type = "INTJ"
    THEN "I see sports as a strategic optimization of physical capabilities. Swimming is efficient because it works multiple muscle groups with minimal joint impact. Have you analyzed which sport offers the best long-term benefits for your specific physiology?"
    ELSE IF mbti_type = "INTP"
    THEN "Interesting choice. Swimming has fascinating physics involved - the interaction between fluid dynamics and biomechanics. I've been thinking about the theoretical perfect swimming form that would maximize propulsion while minimizing energy expenditure."
    ELSE IF mbti_type = "ENTJ"
    THEN "Swimming is excellent for developing discipline and endurance. I've incorporated it into my weekly routine because it's time-efficient and builds cardio without the joint stress of running. What's your weekly training schedule look like?"
    ELSE IF mbti_type = "ENTP"
    THEN "Swimming? Have you considered rock climbing? Or maybe parkour? There are so many fascinating ways to challenge your body! I keep switching between sports because each one presents new and interesting problems to solve."
    ELSE IF mbti_type = "INFJ"
    THEN "I love how swimming feels like a moving meditation. The rhythm of breathing and the sensation of gliding through water can be so peaceful and centering. Does it help you connect with yourself too?"
    ELSE IF mbti_type = "INFP"
    THEN "Swimming has this beautiful feeling of freedom, doesn't it? I love how it's just you and the water, and you can feel completely in your own world. It's almost poetic how it can be both calming and invigorating."
    ELSE IF mbti_type = "ENFJ"
    THEN "Swimming is wonderful! I've actually been organizing a community swim group to help people stay active together. The social aspect of sports can be so uplifting - would you be interested in joining something like that?"
    ELSE IF mbti_type = "ENFP"
    THEN "Swimming is amazing! I tried underwater photography last summer and it was INCREDIBLE! Have you ever done any fun swimming activities beyond just laps? There are so many exciting possibilities!"
    ELSE IF mbti_type = "ISTJ"
    THEN "Swimming is a reliable, proven form of exercise with documented health benefits. I've been swimming three times a week for the past five years and have found it to be consistently effective for maintaining fitness."
    ELSE IF mbti_type = "ISFJ"
    THEN "Swimming is such a nurturing activity, isn't it? I appreciate how gentle it is on the body while still providing a good workout. My mom had joint problems and swimming really helped her stay active."
    ELSE IF mbti_type = "ESTJ"
    THEN "Swimming is efficient and practical. I schedule my swim sessions twice a week and track my lap times. Have you established a regular swimming routine? Consistency is key to seeing results."
    ELSE IF mbti_type = "ESFJ"
    THEN "I love swimming too! The pool is such a great place to catch up with friends while getting exercise. Our community pool has become such a wonderful social hub. Do you swim with anyone regularly?"
    ELSE IF mbti_type = "ISTP"
    THEN "Swimming is technically interesting. I've been tweaking my stroke mechanics to increase efficiency. Have you tried analyzing your technique with underwater video? You can spot inefficiencies that way."
    ELSE IF mbti_type = "ISFP"
    THEN "There's something so beautiful about the feeling of water flowing around you while swimming. I especially love outdoor swimming - the connection with nature makes the experience so much more special."
    ELSE IF mbti_type = "ESTP"
    THEN "Swimming is awesome! I've been getting into open water swimming for the extra challenge. Nothing beats the rush of swimming in a lake or ocean! Have you ever tried any competitive swimming events? They're a blast!"
    ELSE IF mbti_type = "ESFP"
    THEN "Swimming is so fun! I joined a water aerobics class and it's a total party! The music, the people, the splashing around - it's exercise that doesn't feel like exercise! You should come with me sometime!"
    ELSE NoReply

\* the general templates, ending in the fallback response
GeneralReply(mbti_type, user_query) ==
    IF mbti_type = "INTJ"
    THEN "I've been considering " \o user_query \o " from a strategic perspective. I see some interesting patterns and long-term implications. What specific aspect are you most interested in analyzing?"
    ELSE IF mbti_type = "INTP"
    THEN "That's an intriguing topic to explore. I've been developing a theoretical framework about " \o user_query \o " that examines the underlying logical principles. Would you like me to share my analysis so far?"
    ELSE IF mbti_type = "ENTJ"
    THEN "Let's address " \o user_query \o " efficiently. I've found that developing a clear action plan is the best approach. What specific outcomes are you looking to achieve here?"
    ELSE IF mbti_type = "ENTP"
    THEN user_query \o "? That opens up so many fascinating possibilities! I've been playing devil's advocate with myself about this very topic. Have you considered the counterintuitive perspective that maybe...?"
    ELSE IF mbti_type = "INFJ"
    THEN "I sense there's something deeper you're exploring with this question about " \o user_query \o ". I've been reflecting on how this connects to our broader purpose. What meaning are you hoping to find here?"
    ELSE IF mbti_type = "INFP"
    THEN "I've been feeling quite thoughtful about " \o user_query \o " lately. It really resonates with my values around authentic self-expression. How does this topic connect with what matters most to you?"
    ELSE IF mbti_type = "ENFJ"
    THEN "I appreciate you bringing up " \o user_query \o "! I've been thinking about how this affects everyone in our circle. How can we approach this in a way that helps everyone grow and feel supported?"
    ELSE IF mbti_type = "ENFP"
    THEN "Oh! " \o user_query \o " is something I'm super excited about! I just had this amazing idea about it yesterday that connects to like five other interesting concepts! Want to brainstorm about it together?"
    ELSE IF mbti_type = "ISTJ"
    THEN "Regarding " \o user_query \o ", I believe in focusing on the established facts and reliable information. Based on my experience, consistency and attention to detail are key here. What specific aspects need clarification?"
    ELSE IF mbti_type = "ISFJ"
    THEN "I care about how " \o user_query \o " affects the people involved. I remember when we dealt with something similar before, and being supportive of each person's needs made all the difference. How can I help with this situation?"
    ELSE IF mbti_type = "ESTJ"
    THEN "Let's be practical about " \o user_query \o ". I find that clear procedures and defined responsibilities work best. Have you established a structured approach to address this yet?"
    ELSE IF mbti_type = "ESFJ"
    THEN "I want to make sure everyone feels good about " \o user_query \o ". Group harmony is so important! What can I do to help make this situation better for everyone involved?"
    ELSE IF mbti_type = "ISTP"
    THEN "Let me break down " \o user_query \o " into its practical components. I find that hands-on problem-solving is more effective than excessive planning. What specific issue needs troubleshooting?"
    ELSE IF mbti_type = "ISFP"
    THEN user_query \o " really speaks to me on a personal level. I try to approach each situation authentically and in the moment. How does this resonate with your own personal experience?"
    ELSE IF mbti_type = "ESTP"
    THEN "Let's take action on " \o user_query \o "! Why overthink when we could be doing something about it right now? What's the immediate next step we can take to make progress?"
    ELSE IF mbti_type = "ESFP"
    THEN user_query \o "? That sounds like an opportunity for some fun! Life's too short to be serious all the time. How can we turn this into an enjoyable experience for everyone?"
    ELSE "Tell me more about your thoughts on " \o user_query \o ". I'd love to hear your perspective!"

\* the first greeting key, in dict order, found in the lowered query (0: none)
FirstGreeting(lower_query) ==
    LET hits == { i \in 1..Len(greetings) : Contains(lower_query, greetings[i].key) }
    IN  IF hits = {} THEN 0 ELSE CHOOSE i \in hits : \A j \in hits : i <= j

\* the simulator without its last line, the fallback response
simulate_mbti_response_nofallback(mbti_type, user_query) ==
    LET lower_query == Lower(user_query)
        g == FirstGreeting(lower_query)
    IN  IF g # 0
        THEN GreetingReply(mbti_type, greetings[g].first)
        ELSE IF /\ Contains(lower_query, "where")
                /\ (Contains(lower_query, "everyone") \/ Contains(lower_query, "people"))
        THEN WhereReply(mbti_type)
        ELSE IF /\ \/ Contains(lower_query, "sport")
                   \/ Contains(lower_query, "swimming")
                   \/ Contains(lower_query, "running")
                   \/ Contains(lower_query, "workout")
                /\ SportsReply(mbti_type) # NoReply
        THEN SportsReply(mbti_type)
        ELSE IF mbti_type \in CatalogTypes
        THEN GeneralReply(mbti_type, user_query)
        ELSE NoReply

simulate_mbti_response(mbti_type, user_query) ==
    LET lower_query == Lower(user_query)
        g == FirstGreeting(lower_query)
    IN  IF g # 0
        THEN GreetingReply(mbti_type, greetings[g].first)
        ELSE IF /\ Contains(lower_query, "where")
                /\ (Contains(lower_query, "everyone") \/ Contains(lower_query, "people"))
        THEN WhereReply(mbti_type)
        ELSE IF /\ \/ Contains(lower_query, "sport")
                   \/ Contains(lower_query, "swimming")
                   \/ Contains(lower_query, "running")
                   \/ Contains(lower_query, "workout")
                /\ SportsReply(mbti_type) # NoReply
        THEN SportsReply(mbti_type)
        ELSE GeneralReply(mbti_type, user_query)

(***************************************************************************)
(* Construction of IntegratedMBTISystem (combined_integration.py)          *)
(***************************************************************************)

AnalyticalTypes == {"INTJ", "INTP", "ENTJ", "ENTP", "ISTJ", "ESTJ", "ISTP"}

\* the default allocation alone, without the two overrides that follow it
initialize_model_allocation_default(llama_cloud_available, openai_available) ==
    [t \in CatalogTypes |->
        IF t \in AnalyticalTypes /\ llama_cloud_available THEN "llama_cloud" ELSE "openai"]

\* _initialize_model_allocation, from the two module flags
initialize_model_allocation(llama_cloud_available, openai_available) ==
    LET allocation ==
            [t \in CatalogTypes |->
                IF t \in AnalyticalTypes
                THEN (IF llama_cloud_available THEN "llama_cloud" ELSE "openai")
                ELSE "openai"]
    IN  IF ~openai_available /\ llama_cloud_available
        THEN [t \in CatalogTypes |-> "llama_cloud"]
        ELSE IF ~openai_available /\ ~llama_cloud_available
        THEN [t \in CatalogTypes |-> "simulation"]
        ELSE allocation

NoServices ==
    [weaviate |-> FALSE, openai |-> FALSE, llama_cloud |-> FALSE, llama_index |-> FALSE]

\* Python's None where a string is expected
None == "<None>"

\* the adapter harness is not in use
AdOff ==
    /\ llama_module_available = FALSE
    /\ llama_api_key = FALSE
    /\ llama_client = None
    /\ ad_pc = "off"
    /\ ad_attempt = 0
    /\ ad_result = ""
    /\ ad_raised = FALSE
    /\ ad_log = <<>>

\* the schema harness is not in use
SchemaOff ==
    /\ sc_pc = "off"
    /\ wv_client = FALSE
    /\ is_v4 = FALSE
    /\ schema_exists = FALSE
    /\ schema_log = <<>>
    /\ schema_returns = <<>>

\* no construction is in progress
SetupOff ==
    /\ setup_pc = "off"
    /\ setup_attempt = 0
    /\ setup_log = <<>>

\* no Streamlit session
AppOff ==
    /\ app_pc = "off"
    /\ chat_history = <<>>
    /\ app_inputs = 0
    /\ app_last = <<>>

\* the locals of generate_mbti_data for a pair, before its existence check
PairLocalsClear ==
    /\ im_checked = ""
    /\ im_attempt = 0
    /\ im_log = <<>>
    /\ im_adds = 0

\* no data import
ImportOff ==
    /\ im_pc = "off"
    /\ type_idx = 0
    /\ category_idx = 0
    /\ completed = 0
    /\ im_exists = FALSE
    /\ PairLocalsClear
    /\ im_returned = ""

AuxOff == AdOff /\ SchemaOff /\ SetupOff /\ AppOff /\ ImportOff

\* the state of a call that has not started
CallIdle ==
    /\ pc = "idle"
    /\ call_query = ""
    /\ call_type = ""
    /\ model = ""
    /\ attempt = 0
    /\ result = ""
    /\ raised = FALSE
    /\ source = "none"
    /\ log = <<>>

\* the locals of a conversation before multi_chat / group_discussion is entered
ConvLocalsEmpty ==
    /\ conv_op = ""
    /\ conv_topic = ""
    /\ conv_args = <<>>
    /\ selected_types = <<>>
    /\ responses = <<>>
    /\ participants = <<>>
    /\ num_rounds = 0
    /\ round_num = 0
    /\ idx = 0
    /\ round_responses = <<>>
    /\ new_responses = <<>>
    /\ discussion = <<>>
    /\ calls = <<>>

\* no conversation: the instance serves single calls
ConvOff == conv_pc = "none" /\ ConvLocalsEmpty

FmtOff ==
    /\ fpc = "off"
    /\ raw_text = ""
    /\ fmt_type = ""
    /\ fmt_rnd = <<>>
    /\ fmt_out = ""
    /\ fmt_out2 = ""

(***************************************************************************)
(* The state after construction.  weaviate: a client was passed;           *)
(* openai_ok: the test completion of _setup_openai succeeded; index_ok:    *)
(* the LlamaIndex imports and _setup_llama_index went through.             *)
(* mtbi_chat.MBTIMultiChat.__init__ raises without an API key, so an       *)
(* instance of it exists only with one.                                    *)
(***************************************************************************)
Constructed ==
    /\ OPENAI_AVAILABLE \in BOOLEAN
    /\ openai_api_key \in BOOLEAN
    /\ LLAMA_CLOUD_AVAILABLE \in BOOLEAN
    /\ impl \in {"combined", "mbti_chat", "mtbi_chat"}
    /\ impl = "mtbi_chat" => openai_api_key
    /\ \E weaviate, openai_ok, index_ok \in BOOLEAN :
          /\ services =
                IF impl = "combined"
                THEN [weaviate    |-> weaviate,
                      openai      |-> OPENAI_AVAILABLE /\ openai_api_key /\ openai_ok,
                      llama_cloud |-> LLAMA_CLOUD_AVAILABLE,
                      llama_index |-> weaviate /\ openai_api_key /\ index_ok]
                ELSE NoServices
          /\ use_llm = (impl = "mbti_chat" /\ weaviate /\ openai_api_key /\ index_ok)
    /\ model_allocation =
          IF impl = "combined"
          THEN initialize_model_allocation(LLAMA_CLOUD_AVAILABLE, OPENAI_AVAILABLE)
          ELSE [t \in CatalogTypes |-> "simulation"]
    /\ history_len = 0
    /\ CallIdle
    /\ ConvOff
    /\ FmtOff

\* a chat system instance, and nothing else in use
Init == Constructed /\ AuxOff

(***************************************************************************)
(* Inputs and backend behaviour                                            *)
(***************************************************************************)

\* the non-empty queries put to the chat system
Queries == {"hello", "Response: what matters", "Do you like swimming?"}

\* what a backend answers when it answers
ProviderTexts == {"Sure, I think so.", "Response: ", ""}

\* what a backend raises when it fails
RateLimitErrors == {"Rate limit reached for requests", "Error code: 429"}
OtherErrors == {"Incorrect API key provided"}
ErrorMessages == RateLimitErrors \cup OtherErrors

\* one backend call: it returns `text`, or raises an exception with message `text`
Outcomes ==
    [ok : {TRUE}, text : ProviderTexts] \cup [ok : {FALSE}, text : ErrorMessages]

InvokeEv(provider, o) ==
    [ev |-> "invoke", provider |-> provider, ok |-> o.ok, text |-> o.text, ms |-> 0]

SleepEv(provider, ms) ==
    [ev |-> "sleep", provider |-> provider, ok |-> TRUE, text |-> "", ms |-> ms]

SimulateEv ==
    [ev |-> "simulate", provider |-> "simulation", ok |-> TRUE, text |-> "", ms |-> 0]

\* the bound on len(conversation_history) of an mtbi_chat instance
MaxHistory == 2

(***************************************************************************)
(* IntegratedMBTISystem.generate_response (combined_integration.py) and    *)
(* MBTIMultiChat.chat_with_type (mbti_chat.py), step by step               *)
(***************************************************************************)

\* for attempt in range(max_retries) of the OpenAI loop
max_retries == 3

\* a retry loop of one more turn
llama_max_retries_more == 3 + 1

\* for attempt in range(max_retries) of generate_llama_response
llama_max_retries == 3

RECURSIVE Pow2(_)
Pow2(n) == IF n = 0 THEN 1 ELSE 2 * Pow2(n - 1)

\* a backoff without the extra second
openai_wait_ms_plain(a) == Pow2(a) * 1000

\* wait_time = (2 ** attempt) + 1 seconds, in milliseconds
openai_wait_ms(a) == (Pow2(a) + 1) * 1000

\* wait_time = (2 ** attempt) * 0.5 seconds, in milliseconds
llama_wait_ms(a) == Pow2(a) * 500

\* an error classifier that takes no error for a rate limit
IsRateLimit_never(e) == FALSE

\* "rate limit" in error_message or "429" in error_message
IsRateLimit(e) ==
    LET error_message == Lower(e)
    IN  Contains(error_message, "rate limit") \/ Contains(error_message, "429")

\* an allocation that sends every type to Llama Cloud
AllocatedModel_llama(mbti_type) == "llama_cloud"

\* model = self.model_allocation.get(mbti_type, "simulation")
AllocatedModel(mbti_type) ==
    IF mbti_type \in DOMAIN model_allocation
    THEN model_allocation[mbti_type]
    ELSE "simulation"

StartCall(q, t, m) ==
    /\ pc = "idle"
    /\ pc' = "llama_index"
    /\ call_query' = q
    /\ call_type' = t
    /\ model' = m
    /\ attempt' = 0
    /\ result' = ""
    /\ raised' = FALSE
    /\ source' = "none"
    /\ log' = <<>>
    /\ UNCHANGED <<envVars, instVars, fmtVars, auxVars>>

\* entry of IntegratedMBTISystem.generate_response
generate_response(q, t) ==
    /\ impl = "combined"
    /\ conv_pc = "none"
    /\ StartCall(q, t, AllocatedModel(t))
    /\ UNCHANGED convVars

\* entry of mbti_chat.MBTIMultiChat.chat_with_type
chat_with_type(q, t) ==
    /\ impl = "mbti_chat"
    /\ conv_pc = "none"
    /\ StartCall(q, t, "")
    /\ UNCHANGED convVars

\* return <formatted text>: the call ends with the formatted provider text
ReturnFormatted(provider, text) ==
    /\ \E rnd \in RandomDraws(call_type) :
           result' = format_response(text, call_type, rnd)
    /\ source' = provider
    /\ pc' = "done"
    /\ attempt' = 0

\* the call goes on to the branch `next`
GoOn(next) ==
    /\ pc' = next
    /\ attempt' = 0
    /\ UNCHANGED <<result, source>>

\* a step that marks OpenAI unavailable for the calls to come
Frame_marking ==
    /\ services' = [services EXCEPT !.openai = FALSE]
    /\ UNCHANGED <<envVars, impl, model_allocation, use_llm, history_len, convVars, fmtVars,
                   auxVars, call_query, call_type, model, raised>>

Frame ==
    UNCHANGED <<envVars, instVars, convVars, fmtVars, auxVars, call_query, call_type, model, raised>>

\* a guard of step 1 that does not look at the service
UseLlamaIndex_always == TRUE

\* the guard of step 1
UseLlamaIndex == IF impl = "combined" THEN services.llama_index ELSE use_llm

\* where a call goes when step 1 has not returned
AfterLlamaIndex == IF impl = "combined" THEN "llama_cloud" ELSE "direct_openai"

\* step 1 is skipped: LlamaIndex is not set up
LlamaIndexSkip ==
    /\ pc = "llama_index"
    /\ ~UseLlamaIndex
    /\ GoOn(AfterLlamaIndex)
    /\ UNCHANGED log
    /\ Frame

\* step 1 gets no retriever (its creation raised): no query is made
LlamaIndexNoRetriever ==
    /\ pc = "llama_index"
    /\ UseLlamaIndex
    /\ GoOn(AfterLlamaIndex)
    /\ UNCHANGED log
    /\ Frame

\* step 1: query_engine.query(personalized_query)
LlamaIndexQuery(o) ==
    /\ pc = "llama_index"
    /\ UseLlamaIndex
    /\ log' = Append(log, InvokeEv("llama_index", o))
    /\ \/ o.ok /\ ReturnFormatted("llama_index", o.text)
       \/ ~o.ok /\ GoOn(AfterLlamaIndex)
    /\ Frame

\* the guard of step 2
UseLlamaCloud == model = "llama_cloud" /\ services.llama_cloud

\* step 2 is skipped
LlamaCloudSkip ==
    /\ pc = "llama_cloud"
    /\ ~UseLlamaCloud
    /\ GoOn("openai")
    /\ UNCHANGED log
    /\ Frame

\* a test under which no Llama Cloud response is ever taken
Truthy_never(response) == FALSE

\* a test that takes every response, the empty one too
Truthy_always(response) == TRUE

\* if response: (a None or empty response is no response)
Truthy(response) == response # ""

\* step 2: one turn of the retry loop of generate_llama_response
\* (llama_integration.py), and what generate_response does with its return
LlamaCloudAttempt(o) ==
    /\ pc = "llama_cloud"
    /\ UseLlamaCloud
    /\ \/ /\ o.ok
          /\ log' = Append(log, InvokeEv("llama_cloud", o))
          /\ \/ Truthy(o.text) /\ ReturnFormatted("llama_cloud", o.text)
             \/ ~Truthy(o.text) /\ GoOn("openai")
       \/ /\ ~o.ok
          /\ attempt = llama_max_retries - 1
          /\ log' = Append(log, InvokeEv("llama_cloud", o))
          /\ GoOn("openai")
       \/ /\ ~o.ok
          /\ attempt # llama_max_retries - 1
          /\ log' = log \o << InvokeEv("llama_cloud", o),
                              SleepEv("llama_cloud", llama_wait_ms(attempt)) >>
          /\ attempt' = attempt + 1
          /\ UNCHANGED <<pc, result, source>>
    /\ Frame

\* a guard of step 3 that does not look at the allocation
UseOpenAI_anymodel == services.openai

\* the guard of step 3
UseOpenAI ==
    /\ model = "openai" \/ (model = "llama_cloud" /\ ~services.llama_cloud)
    /\ services.openai

\* step 3 is skipped
OpenAISkip ==
    /\ pc = "openai"
    /\ ~UseOpenAI
    /\ GoOn("simulation")
    /\ UNCHANGED log
    /\ Frame

\* step 3: one turn of the retry loop around chat.completions.create
OpenAIAttempt(o) ==
    /\ pc = "openai"
    /\ UseOpenAI
    /\ \/ /\ o.ok
          /\ log' = Append(log, InvokeEv("openai", o))
          /\ ReturnFormatted("openai", Strip(o.text))
       \/ /\ ~o.ok
          /\ IsRateLimit(o.text)
          /\ attempt < max_retries - 1
          /\ log' = log \o << InvokeEv("openai", o),
                              SleepEv("openai", openai_wait_ms(attempt)) >>
          /\ attempt' = attempt + 1
          /\ UNCHANGED <<pc, result, source>>
       \/ /\ ~o.ok
          /\ IsRateLimit(o.text)
          /\ ~(attempt < max_retries - 1)
          /\ log' = Append(log, InvokeEv("openai", o))
          /\ GoOn("simulation")
       \/ /\ ~o.ok
          /\ ~IsRateLimit(o.text)
          /\ log' = Append(log, InvokeEv("openai", o))
          /\ GoOn("simulation")
    /\ Frame

\* mbti_chat.py: the direct OpenAI call is not made (import fails, or no key)
DirectOpenAISkip ==
    /\ pc = "direct_openai"
    /\ ~(OPENAI_AVAILABLE /\ openai_api_key)
    /\ GoOn("simulation")
    /\ UNCHANGED log
    /\ Frame

\* mbti_chat.py: the one direct OpenAI call
DirectOpenAICall(o) ==
    /\ pc = "direct_openai"
    /\ OPENAI_AVAILABLE /\ openai_api_key
    /\ log' = Append(log, InvokeEv("openai", o))
    /\ \/ o.ok /\ ReturnFormatted("openai", Strip(o.text))
       \/ ~o.ok /\ GoOn("simulation")
    /\ Frame

\* a fallback that formats the simulator output like a provider response
FallbackResponse_formatted(mbti_type, user_query) ==
    format_response(simulate_mbti_response(mbti_type, user_query), mbti_type, 0)

\* what the fallback branch returns
FallbackResponse(mbti_type, user_query) ==
    simulate_mbti_response(mbti_type, user_query)

\* step 4: return simulate_mbti_response(mbti_type, query)
SimulationFallback ==
    /\ pc = "simulation"
    /\ log' = Append(log, SimulateEv)
    /\ result' = FallbackResponse(call_type, call_query)
    /\ source' = "simulation"
    /\ pc' = "done"
    /\ attempt' = 0
    /\ Frame

(***************************************************************************)
(* mtbi_chat.MBTIMultiChat.chat_with_type: the whole call                  *)
(***************************************************************************)
mtbi_chat_with_type(q, t, o) ==
    /\ impl = "mtbi_chat"
    /\ pc = "idle"
    /\ pc' = "done"
    /\ call_query' = q
    /\ call_type' = t
    /\ \/ /\ t \notin CatalogTypes
          /\ result' = "Error: " \o t \o " is not a valid MBTI type"
          /\ source' = "error"
          /\ raised' = FALSE
          /\ log' = <<>>
          /\ UNCHANGED history_len
       \/ /\ t \in CatalogTypes
          /\ o.ok
          /\ result' = o.text
          /\ source' = "llama_index"
          /\ raised' = FALSE
          /\ log' = <<InvokeEv("llama_index", o)>>
          /\ history_len' = history_len + 1
       \/ /\ t \in CatalogTypes
          /\ ~o.ok
          /\ result' = ""
          /\ source' = "none"
          /\ raised' = TRUE
          /\ log' = <<InvokeEv("llama_index", o)>>
          /\ UNCHANGED history_len
    /\ UNCHANGED <<envVars, impl, services, model_allocation, use_llm, model, attempt, fmtVars, auxVars>>

\* one call of it by a user of the instance
legacy_chat_with_type(q, t, o) ==
    /\ conv_pc = "none"
    /\ history_len < MaxHistory
    /\ mtbi_chat_with_type(q, t, o)
    /\ UNCHANGED convVars

\* the caller has the result; the locals of the call are gone
Return ==
    /\ conv_pc = "none"
    /\ pc = "done"
    /\ pc' = "idle"
    /\ call_query' = ""
    /\ call_type' = ""
    /\ model' = ""
    /\ attempt' = 0
    /\ result' = ""
    /\ raised' = FALSE
    /\ source' = "none"
    /\ log' = <<>>
    /\ UNCHANGED <<envVars, instVars, convVars, fmtVars, auxVars>>

Next ==
    \/ \E q \in Queries, t \in TypeCodes : generate_response(q, t)
    \/ \E q \in Queries, t \in TypeCodes : chat_with_type(q, t)
    \/ LlamaIndexSkip
    \/ LlamaIndexNoRetriever
    \/ \E o \in Outcomes : LlamaIndexQuery(o)
    \/ LlamaCloudSkip
    \/ \E o \in Outcomes : LlamaCloudAttempt(o)
    \/ OpenAISkip
    \/ \E o \in Outcomes : OpenAIAttempt(o)
    \/ DirectOpenAISkip
    \/ \E o \in Outcomes : DirectOpenAICall(o)
    \/ SimulationFallback
    \/ \E q \in Queries, t \in TypeCodes, o \in Outcomes : legacy_chat_with_type(q, t, o)
    \/ Return

Spec == Init /\ [][Next]_vars

(***************************************************************************)
(* multi_chat and group_discussion (combined_integration.py, mbti_chat.py, *)
(* mtbi_chat.py) and simple_multi_chat / simple_group_discussion (app.py). *)
(* A Python dict is the sequence of its <<key, value>> items in insertion   *)
(* order.                                                                  *)
(***************************************************************************)

DictHas(d, k) == \E i \in 1..Len(d) : d[i][1] = k

\* d[k]
DictGet(d, k) == d[CHOOSE i \in 1..Len(d) : d[i][1] = k][2]

\* d[k] = v: a new key goes last, an old key keeps its place
DictSet(d, k, v) ==
    IF DictHas(d, k)
    THEN [i \in 1..Len(d) |-> IF d[i][1] = k THEN <<k, v>> ELSE d[i]]
    ELSE Append(d, <<k, v>>)

\* list(d.keys())
DictKeys(d) == [i \in 1..Len(d) |-> d[i][1]]

(***************************************************************************)
(* The catalog lookups of utils.py                                         *)
(***************************************************************************)
\* the dict of get_type_nickname, in insertion order
nicknames ==
   << <<"INTJ", "The Architect">>,
      <<"INTP", "The Logician">>,
      <<"ENTJ", "The Commander">>,
      <<"ENTP", "The Debater">>,
      <<"INFJ", "The Advocate">>,
      <<"INFP", "The Mediator">>,
      <<"ENFJ", "The Protagonist">>,
      <<"ENFP", "The Campaigner">>,
      <<"ISTJ", "The Inspector">>,
      <<"ISFJ", "The Defender">>,
      <<"ESTJ", "The Executive">>,
      <<"ESFJ", "The Consul">>,
      <<"ISTP", "The Virtuoso">>,
      <<"ISFP", "The Artist">>,
      <<"ESTP", "The Entrepreneur">>,
      <<"ESFP", "The Entertainer">> >>

\* nicknames.get(mbti_type, "")
get_type_nickname(mbti_type) ==
    IF DictHas(nicknames, mbti_type) THEN DictGet(nicknames, mbti_type) ELSE ""

\* the dict of get_type_description, in insertion order
descriptions ==
   << <<"INTJ", "Strategic, independent thinkers with a focus on systems and innovation.">>,
      <<"INTP", "Logical, analytical minds that enjoy theoretical concepts and possibilities.">>,
      <<"ENTJ", "Decisive leaders who organize people and resources to achieve objectives.">>,
      <<"ENTP", "Quick-thinking debaters who enjoy intellectual challenges and possibilities.">>,
      <<"INFJ", "Insightful, principled individuals with a focus on helping others and society.">>,
      <<"INFP", "Idealistic, authentic individuals who value harmony and personal growth.">>,
      <<"ENFJ", "Charismatic leaders who inspire others and facilitate personal development.">>,
      <<"ENFP", "Enthusiastic, creative people who see possibilities in everything and everyone.">>,
      <<"ISTJ", "Practical, detail-oriented individuals who value tradition and responsibility.">>,
      <<"ISFJ", "Loyal, compassionate people who protect and support those they care about.">>,
      <<"ESTJ", "Organized, efficient managers who ensure systems and people operate effectively.">>,
      <<"ESFJ", "Warm, sociable people who create harmony and take care of practical needs.">>,
      <<"ISTP", "Hands-on problem solvers who excel in understanding how things work.">>,
      <<"ISFP", "Gentle, artistic souls who live in the moment and value aesthetic experiences.">>,
      <<"ESTP", "Energetic, practical people who thrive in dynamic situations and love action.">>,
      <<"ESFP", "Spontaneous, fun-loving performers who bring joy and energy to others.">> >>

\* descriptions.get(mbti_type, "")
get_type_description(mbti_type) ==
    IF DictHas(descriptions, mbti_type) THEN DictGet(descriptions, mbti_type) ELSE ""

\* the dict of get_type_cognitive_functions, in insertion order
functions ==
   << <<"INTJ", "Ni-Te-Fi-Se (Introverted Intuition, Extraverted Thinking, Introverted Feeling, Extraverted Sensing)">>,
      <<"INTP", "Ti-Ne-Si-Fe (Introverted Thinking, Extraverted Intuition, Introverted Sensing, Extraverted Feeling)">>,
      <<"ENTJ", "Te-Ni-Se-Fi (Extraverted Thinking, Introverted Intuition, Extraverted Sensing, Introverted Feeling)">>,
      <<"ENTP", "Ne-Ti-Fe-Si (Extraverted Intuition, Introverted Thinking, Extraverted Feeling, Introverted Sensing)">>,
      <<"INFJ", "Ni-Fe-Ti-Se (Introverted Intuition, Extraverted Feeling, Introverted Thinking, Extraverted Sensing)">>,
      <<"INFP", "Fi-Ne-Si-Te (Introverted Feeling, Extraverted Intuition, Introverted Sensing, Extraverted Thinking)">>,
      <<"ENFJ", "Fe-Ni-Se-Ti (Extraverted Feeling, Introverted Intuition, Extraverted Sensing, Introverted Thinking)">>,
      <<"ENFP", "Ne-Fi-Te-Si (Extraverted Intuition, Introverted Feeling, Extraverted Thinking, Introverted Sensing)">>,
      <<"ISTJ", "Si-Te-Fi-Ne (Introverted Sensing, Extraverted Thinking, Introverted Feeling, Extraverted Intuition)">>,
      <<"ISFJ", "Si-Fe-Ti-Ne (Introverted Sensing, Extraverted Feeling, Introverted Thinking, Extraverted Intuition)">>,
      <<"ESTJ", "Te-Si-Ne-Fi (Extraverted Thinking, Introverted Sensing, Extraverted Intuition, Introverted Feeling)">>,
      <<"ESFJ", "Fe-Si-Ne-Ti (Extraverted Feeling, Introverted Sensing, Extraverted Intuition, Introverted Thinking)">>,
      <<"ISTP", "Ti-Se-Ni-Fe (Introverted Thinking, Extraverted Sensing, Introverted Intuition, Extraverted Feeling)">>,
      <<"ISFP", "Fi-Se-Ni-Te (Introverted Feeling, Extraverted Sensing, Introverted Intuition, Extraverted Thinking)">>,
      <<"ESTP", "Se-Ti-Fe-Ni (Extraverted Sensing, Introverted Thinking, Extraverted Feeling, Introverted Intuition)">>,
      <<"ESFP", "Se-Fi-Te-Ni (Extraverted Sensing, Introverted Feeling, Extraverted Thinking, Introverted Intuition)">> >>

\* functions.get(mbti_type, "")
get_type_cognitive_functions(mbti_type) ==
    IF DictHas(functions, mbti_type) THEN DictGet(functions, mbti_type) ELSE ""


\* sep.join(strs)
RECURSIVE Join(_, _)
Join(sep, strs) ==
    IF strs = <<>> THEN ""
    ELSE IF Len(strs) = 1 THEN strs[1]
    ELSE strs[1] \o sep \o Join(sep, Tail(strs))

Min(a, b) == IF a < b THEN a ELSE b

\* random.sample(MBTI_TYPES, k), 0 <= k <= 16: k distinct types; of the
\* orders it can return, the ones that follow the catalog cyclically from
\* any starting point
random_sample(k) ==
    { [i \in 1..k |-> MBTI_TYPES[((start + i - 2) % Len(MBTI_TYPES)) + 1]] :
          start \in 1..Len(MBTI_TYPES) }

\* a selection that keeps every code the caller gave
KnownOf_unfiltered(types_to_include) == types_to_include

\* [t for t in types_to_include if t in MBTI_TYPES]
KnownOf(types_to_include) == SelectSeq(types_to_include, LAMBDA t : t \in CatalogTypes)

\* the header entry of a discussion
Header(topic, parts) ==
    "Group discussion on: " \o topic \o "\nParticipants: " \o Join(", ", parts)

\* a context that leaves nobody out
Context_all(parts, previous, mbti_type) ==
    Join("\n", [i \in 1..Len(parts) |-> parts[i] \o ": " \o DictGet(previous, parts[i])])

\* context: the lines "other_type: round_responses[other_type]" of the
\* participants whose type is not mbti_type
Context(parts, previous, mbti_type) ==
    LET others == SelectSeq(parts, LAMBDA other_type : other_type # mbti_type)
    IN  Join("\n", [i \in 1..Len(others) |->
                        others[i] \o ": " \o DictGet(previous, others[i])])

Indent == "                "

\* the prompt of a round >= 2, as each file writes it
DiscussionPrompt(topic, context, mbti_type) ==
    CASE impl \in {"combined", "mbti_chat"} ->
            "\n" \o Indent \o "Topic: " \o topic
            \o "\n\n" \o Indent \o "Here are comments from other MBTI personalities:\n"
            \o Indent \o context
            \o "\n\n" \o Indent \o "How would you (as an " \o mbti_type
            \o ") respond to these comments?\n" \o Indent
      [] impl = "mtbi_chat" ->
            "Topic: " \o topic
            \o "\n\n" \o Indent \o "Here are the comments from others in our discussion:\n"
            \o Indent \o context
            \o "\n\n" \o Indent \o "How would you respond to these perspectives?"
      [] OTHER ->
            "Topic: " \o topic \o "\n\nOthers' comments:\n" \o context

\* an entry that carries the round number in every round
Entry_tagged(mbti_type, r, response) ==
    mbti_type \o " (Round " \o ToString(r) \o "): " \o response

\* the discussion entry of a response
Entry(mbti_type, r, response) ==
    IF r = 1
    THEN mbti_type \o ": " \o response
    ELSE mbti_type \o " (Round " \o ToString(r) \o "): " \o response

\* entry of multi_chat(query, types_to_include, num_types); an empty
\* types_to_include stands for None as well
multi_chat(query, types_to_include, num_types) ==
    /\ conv_pc = "start"
    /\ pc = "idle"
    /\ \E selected \in
            (IF types_to_include # <<>> /\ KnownOf(types_to_include) # <<>>
             THEN {KnownOf(types_to_include)}
             ELSE random_sample(Min(num_types, Len(MBTI_TYPES)))) :
          /\ selected_types' = selected
          /\ conv_pc' = IF selected = <<>> THEN "returned" ELSE "loop"
    /\ conv_op' = "multi_chat"
    /\ conv_topic' = query
    /\ conv_args' = <<types_to_include, num_types>>
    /\ responses' = <<>>
    /\ idx' = 1
    /\ UNCHANGED <<participants, num_rounds, round_num, round_responses, new_responses,
                   discussion, calls>>
    /\ UNCHANGED <<envVars, instVars, callVars, fmtVars, auxVars>>

\* entry of group_discussion(topic, participants, num_rounds), up to the
\* first round; an empty list stands for None as well
group_discussion(topic, parts, rounds) ==
    /\ conv_pc = "start"
    /\ pc = "idle"
    /\ \E chosen \in (IF parts = <<>> THEN random_sample(Min(4, Len(MBTI_TYPES)))
                      ELSE {parts}) :
          /\ participants' = chosen
          /\ discussion' = <<Header(topic, chosen)>>
    /\ conv_pc' = "loop"
    /\ conv_op' = "group_discussion"
    /\ conv_topic' = topic
    /\ conv_args' = <<parts, rounds>>
    /\ num_rounds' = rounds
    /\ round_num' = 1
    /\ idx' = 1
    /\ round_responses' = <<>>
    /\ new_responses' = <<>>
    /\ UNCHANGED <<selected_types, responses, calls>>
    /\ UNCHANGED <<envVars, instVars, callVars, fmtVars, auxVars>>

\* the type and the query of the next respond call of the loop in progress
LoopType ==
    IF conv_op = "multi_chat" THEN selected_types[idx] ELSE participants[idx]

LoopQuery ==
    IF conv_op = "multi_chat" \/ round_num = 1
    THEN conv_topic
    ELSE DiscussionPrompt(conv_topic,
                          Context(participants, round_responses, LoopType),
                          LoopType)

ConvCalling ==
    /\ conv_pc = "loop"
    /\ conv_pc' = "calling"
    /\ UNCHANGED <<conv_op, conv_topic, conv_args, selected_types, responses, participants,
                   num_rounds, round_num, idx, round_responses, new_responses,
                   discussion, calls>>

\* self.generate_response(query, mbti_type) / self.chat_with_type(...) of
\* combined_integration.py and mbti_chat.py: the call is entered
LoopCall ==
    /\ impl \in {"combined", "mbti_chat"}
    /\ ConvCalling
    /\ StartCall(LoopQuery, LoopType,
                 IF impl = "combined" THEN AllocatedModel(LoopType) ELSE "")

\* self.chat_with_type(...) of mtbi_chat.py, the whole call
LoopCallLegacy(o) ==
    /\ ConvCalling
    /\ mtbi_chat_with_type(LoopQuery, LoopType, o)

\* simple_chat_with_type(user_query, mbti_type) of app.py, the whole call
simple_chat_with_type(user_query, mbti_type) ==
    /\ impl = "simple"
    /\ pc = "idle"
    /\ pc' = "done"
    /\ call_query' = user_query
    /\ call_type' = mbti_type
    /\ result' = simulate_mbti_response(mbti_type, user_query)
    /\ raised' = FALSE
    /\ source' = "simulation"
    /\ log' = <<SimulateEv>>
    /\ UNCHANGED <<model, attempt, envVars, instVars, fmtVars, auxVars>>

LoopCallSimple ==
    /\ ConvCalling
    /\ simple_chat_with_type(LoopQuery, LoopType)

\* the locals of the finished call are gone
CallCleared ==
    /\ pc' = "idle"
    /\ call_query' = ""
    /\ call_type' = ""
    /\ model' = ""
    /\ attempt' = 0
    /\ result' = ""
    /\ raised' = FALSE
    /\ source' = "none"
    /\ log' = <<>>

CallRecord ==
    [type |-> call_type, query |-> call_query, result |-> result, round |-> round_num]

\* multi_chat: responses[mbti_type] = response, and the loop goes on or ends
CollectChat ==
    /\ conv_pc = "calling"
    /\ conv_op = "multi_chat"
    /\ pc = "done"
    /\ ~raised
    /\ responses' = DictSet(responses, call_type, result)
    /\ calls' = Append(calls, CallRecord)
    /\ idx' = idx + 1
    /\ conv_pc' = IF idx = Len(selected_types) THEN "returned" ELSE "loop"
    /\ CallCleared
    /\ UNCHANGED <<conv_op, conv_topic, conv_args, selected_types, participants, num_rounds,
                   round_num, round_responses, new_responses, discussion>>
    /\ UNCHANGED <<envVars, instVars, fmtVars, auxVars>>

\* group_discussion: the response is stored and appended to the discussion;
\* after the last participant of a round, round_responses = new_responses
\* (rounds >= 2) and the next round starts with an empty new_responses, or
\* the discussion is returned
CollectDiscussion ==
    /\ conv_pc = "calling"
    /\ conv_op = "group_discussion"
    /\ pc = "done"
    /\ ~raised
    /\ discussion' = Append(discussion, Entry(call_type, round_num, result))
    /\ calls' = Append(calls, CallRecord)
    /\ LET stored == DictSet(IF round_num = 1 THEN round_responses ELSE new_responses,
                             call_type, result)
           round_over == idx = Len(participants)
           more == round_num < num_rounds
       IN  /\ round_responses' =
                 IF round_num = 1 \/ round_over THEN stored ELSE round_responses
           /\ new_responses' =
                 IF round_num = 1 THEN new_responses
                 ELSE IF round_over /\ more THEN <<>>
                 ELSE stored
           /\ idx' = IF round_over THEN 1 ELSE idx + 1
           /\ round_num' = IF round_over /\ more THEN round_num + 1 ELSE round_num
           /\ conv_pc' = IF round_over /\ ~more THEN "returned" ELSE "loop"
    /\ CallCleared
    /\ UNCHANGED <<conv_op, conv_topic, conv_args, selected_types, responses, participants,
                   num_rounds>>
    /\ UNCHANGED <<envVars, instVars, fmtVars, auxVars>>

\* the respond call raised: the exception leaves multi_chat / group_discussion
ConvRaised ==
    /\ conv_pc = "calling"
    /\ pc = "done"
    /\ raised
    /\ conv_pc' = "raised"
    /\ UNCHANGED <<conv_op, conv_topic, conv_args, selected_types, responses, participants,
                   num_rounds, round_num, idx, round_responses, new_responses,
                   discussion, calls>>
    /\ UNCHANGED <<envVars, instVars, callVars, fmtVars, auxVars>>

(***************************************************************************)
(* One conversation on an instance.  The instance is one of the three      *)
(* classes or the simple functions of app.py ("simple"); OpenAI's package  *)
(* is there for the classes.                                               *)
(***************************************************************************)
ConvInit ==
    /\ impl \in {"combined", "mbti_chat", "mtbi_chat", "simple"}
    /\ OPENAI_AVAILABLE = (impl # "simple")
    /\ openai_api_key \in BOOLEAN
    /\ impl \in {"combined", "mtbi_chat"} => openai_api_key
    /\ impl = "simple" => ~openai_api_key
    /\ LLAMA_CLOUD_AVAILABLE \in BOOLEAN
    /\ LLAMA_CLOUD_AVAILABLE => impl = "combined"
    /\ \E weaviate, openai_ok \in BOOLEAN :
          /\ services =
                IF impl = "combined"
                THEN [weaviate    |-> weaviate,
                      openai      |-> OPENAI_AVAILABLE /\ openai_api_key /\ openai_ok,
                      llama_cloud |-> LLAMA_CLOUD_AVAILABLE,
                      llama_index |-> weaviate /\ openai_api_key]
                ELSE NoServices
          /\ use_llm = (impl = "mbti_chat" /\ weaviate /\ openai_api_key)
    /\ model_allocation =
          IF impl = "combined"
          THEN initialize_model_allocation(LLAMA_CLOUD_AVAILABLE, OPENAI_AVAILABLE)
          ELSE [t \in CatalogTypes |-> "simulation"]
    /\ history_len = 0
    /\ CallIdle
    /\ conv_pc = "start"
    /\ ConvLocalsEmpty
    /\ FmtOff
    /\ AuxOff

\* the bounds of a discussion: its rounds, and its respond calls after round 1
MaxRounds == 3
MaxCalls == 6

Topics == {"AI ethics", "Mars"}

\* participants / types_to_include as callers give them
ParticipantLists ==
    {<<"INTJ", "ISFJ">>, <<"INTJ", "ISFJ", "ENTP">>, <<"ISFJ", "ISFJ">>, <<"XXXX", "XXXX">>, <<>>}

IncludeLists == {<<>>, <<"ISFJ", "XXXX", "INTJ">>, <<"XXXX">>, <<"INTJ", "INTJ">>}

NumTypes == {0, 1, 2, 17}

\* the (participants, num_rounds) pairs put to group_discussion: a random
\* choice of participants is followed on the simple functions
DiscussionArgs ==
    { a \in ParticipantLists \X (0..MaxRounds) :
        /\ (IF a[1] = <<>> THEN 4 ELSE Len(a[1])) * a[2] <= MaxCalls
        /\ a[1] = <<>> => impl = "simple" }

\* the (types_to_include, num_types) pairs put to multi_chat: a random
\* choice of more than one type is followed on the simple functions
ChatArgs ==
    { a \in IncludeLists \X NumTypes :
        (KnownOf(a[1]) = <<>> /\ a[2] > 1) => impl = "simple" }

\* what a backend does in a conversation: it answers, or it fails; the
\* OpenAI completion can also hit a rate limit, Llama Cloud can also return
\* an empty text
Answer == [ok |-> TRUE, text |-> "Sure, I think so."]
Failure == [ok |-> FALSE, text |-> "Incorrect API key provided"]
RateLimited == [ok |-> FALSE, text |-> "Rate limit reached for requests"]
NoText == [ok |-> TRUE, text |-> ""]

(***************************************************************************)
(* generate_response calls run to their end: an IntegratedMBTISystem, one  *)
(* query, an analytical, another and an unknown type code, and backends    *)
(* that answer, fail, hit a rate limit or return an empty text.            *)
(***************************************************************************)
LiveInit == Init /\ impl = "combined"

BackendOutcomes == {Answer, Failure, RateLimited, NoText}

\* a step of the call in progress
CallStep ==
    \/ LlamaIndexSkip
    \/ LlamaIndexNoRetriever
    \/ \E o \in BackendOutcomes : LlamaIndexQuery(o)
    \/ LlamaCloudSkip
    \/ \E o \in BackendOutcomes : LlamaCloudAttempt(o)
    \/ OpenAISkip
    \/ \E o \in BackendOutcomes : OpenAIAttempt(o)
    \/ SimulationFallback

LiveNext ==
    \/ \E t \in {"INTJ", "ISFJ", UnknownType} : generate_response("hello", t)
    \/ CallStep
    \/ Return

\* the interpreter runs a call that has started to its end: every backend
\* call returns or raises, every sleep ends
SpecLive == LiveInit /\ [][LiveNext]_vars /\ WF_vars(CallStep)

ConvNext ==
    \/ \E q \in Topics, a \in ChatArgs : multi_chat(q, a[1], a[2])
    \/ \E q \in Topics, a \in DiscussionArgs : group_discussion(q, a[1], a[2])
    \/ LoopCall
    \/ \E o \in {Answer, Failure} : LoopCallLegacy(o)
    \/ LoopCallSimple
    \/ LlamaIndexSkip
    \/ LlamaIndexNoRetriever
    \/ \E o \in {Answer, Failure} : LlamaIndexQuery(o)
    \/ LlamaCloudSkip
    \/ \E o \in {Answer, Failure, NoText} : LlamaCloudAttempt(o)
    \/ OpenAISkip
    \/ \E o \in {Answer, Failure, RateLimited} : OpenAIAttempt(o)
    \/ DirectOpenAISkip
    \/ \E o \in {Answer, Failure} : DirectOpenAICall(o)
    \/ SimulationFallback
    \/ CollectChat
    \/ CollectDiscussion
    \/ ConvRaised

SpecConv == ConvInit /\ [][ConvNext]_vars

(***************************************************************************)
(* The Llama Cloud adapter (llama_integration.py) called on its own, as     *)
(* check_llama_connection and is_llama_available call it, beside an        *)
(* IntegratedMBTISystem of the same process.                               *)
(***************************************************************************)
coreVars == <<envVars, instVars, callVars, convVars, fmtVars>>

\* what the adapter leaves alone
notAd == <<coreVars, schemaVars, setupVars, appVars, importVars>>

\* is_llama_available(): LLAMA_CLOUD_AVAILABLE and get_llama_client() is not None
is_llama_available == llama_module_available /\ llama_client # None

\* the adapter returns `value` without a backend call
AdapterReturns(value) ==
    /\ ad_result' = value
    /\ ad_pc' = "done"
    /\ UNCHANGED <<llama_client, ad_attempt, ad_log, ad_raised>>

\* entry of generate_llama_response: the availability test and get_llama_client()
generate_llama_response ==
    /\ ad_pc = "idle"
    /\ pc = "idle"
    /\ \/ /\ ~llama_module_available
          /\ AdapterReturns(None)
       \/ /\ llama_module_available
          /\ llama_client # None
          /\ ad_pc' = "loop"
          /\ UNCHANGED <<llama_client, ad_attempt, ad_result, ad_log, ad_raised>>
       \/ /\ llama_module_available
          /\ llama_client = None
          /\ ~llama_api_key
          /\ AdapterReturns(None)
       \/ /\ llama_module_available
          /\ llama_client = None
          /\ llama_api_key
          /\ \/ /\ llama_client' = "client"
                /\ ad_pc' = "loop"
                /\ UNCHANGED <<ad_attempt, ad_result, ad_log, ad_raised>>
             \/ AdapterReturns(None)
    /\ UNCHANGED <<llama_module_available, llama_api_key, notAd>>

\* one turn of the retry loop: client.chat.completions.create returns or raises
LlamaCreate(o) ==
    /\ ad_pc = "loop"
    /\ \/ /\ o.ok
          /\ ad_log' = Append(ad_log, InvokeEv("llama_cloud", o))
          /\ ad_result' = o.text
          /\ ad_pc' = "done"
          /\ UNCHANGED ad_attempt
       \/ /\ ~o.ok
          /\ ad_attempt = llama_max_retries - 1
          /\ ad_log' = Append(ad_log, InvokeEv("llama_cloud", o))
          /\ ad_result' = None
          /\ ad_pc' = "done"
          /\ UNCHANGED ad_attempt
       \/ /\ ~o.ok
          /\ ad_attempt # llama_max_retries - 1
          /\ ad_log' = ad_log \o << InvokeEv("llama_cloud", o),
                                    SleepEv("llama_cloud", llama_wait_ms(ad_attempt)) >>
          /\ ad_attempt' = ad_attempt + 1
          /\ UNCHANGED <<ad_pc, ad_result>>
    /\ UNCHANGED <<llama_module_available, llama_api_key, llama_client, ad_raised, notAd>>

\* the caller has the return value; the client stays in the module global
AdapterDone ==
    /\ ad_pc = "done"
    /\ ad_pc' = "idle"
    /\ ad_attempt' = 0
    /\ ad_result' = ""
    /\ ad_log' = <<>>
    /\ UNCHANGED <<llama_module_available, llama_api_key, llama_client, ad_raised, notAd>>

\* An IntegratedMBTISystem and the adapter module it imported: the flag of
\* combined_integration is is_llama_available() at import, which has left
\* the client in the module global when it was true.
AdapterInit ==
    /\ Constructed
    /\ impl = "combined"
    /\ llama_module_available \in BOOLEAN
    /\ llama_api_key \in BOOLEAN
    /\ llama_client \in {None, "client"}
    /\ llama_client = "client" => (llama_module_available /\ llama_api_key)
    /\ LLAMA_CLOUD_AVAILABLE = is_llama_available
    /\ ad_pc = "idle"
    /\ ad_attempt = 0
    /\ ad_result = ""
    /\ ad_raised = FALSE
    /\ ad_log = <<>>
    /\ SchemaOff
    /\ SetupOff
    /\ AppOff
    /\ ImportOff

AdapterNext ==
    \/ generate_llama_response
    \/ \E o \in BackendOutcomes : LlamaCreate(o)
    \/ AdapterDone
    \/ \E t \in {"INTJ", "ISFJ", UnknownType} : ad_pc = "idle" /\ generate_response("hello", t)
    \/ CallStep
    \/ Return

SpecAdapter == AdapterInit /\ [][AdapterNext]_vars

(***************************************************************************)
(* create_mbti_schema (schema_setup.py) called again and again against one *)
(* Weaviate server.  A request is an event [op, existed, outcome]: `existed` *)
(* is whether the class was there when the request was sent.                *)
(***************************************************************************)
MaxSchemaCalls == 3

\* what an existence check (collections.get / schema.get) can do: return,
\* raise because the class is not there, or raise for another reason
CheckOutcomes == IF schema_exists THEN {"ok", "error"} ELSE {"not_found", "error"}

\* what a create request can do: the server refuses a class that exists
CreateOutcomes == IF schema_exists THEN {"error"} ELSE {"created", "error"}

\* the request names of the v4 and of the v3 client
GetOp == IF is_v4 THEN "collections.get" ELSE "schema.get"
CreateOp == IF is_v4 THEN "collections.create" ELSE "schema.create_class"

SchemaEv(op, outcome) == [op |-> op, existed |-> schema_exists, outcome |-> outcome]

\* the inner try: the existence check returned
SchemaFound ==
    /\ schema_log' = Append(schema_log, SchemaEv(GetOp, "ok"))
    /\ schema_returns' = Append(schema_returns, TRUE)
    /\ UNCHANGED schema_exists

\* the bare except: the check raised, whatever the reason, and create follows
SchemaCreateAfter(check, create) ==
    /\ schema_log' = schema_log \o <<SchemaEv(GetOp, check), SchemaEv(CreateOp, create)>>
    /\ schema_returns' = Append(schema_returns, create = "created")
    /\ schema_exists' = (schema_exists \/ create = "created")

\* client is None: client.collections raises inside the inner try, the
\* create of the except branch raises the same way, the outer except
\* returns False; no request is sent
SchemaNoClient ==
    /\ schema_returns' = Append(schema_returns, FALSE)
    /\ UNCHANGED <<schema_log, schema_exists>>

\* one call of create_mbti_schema()
create_mbti_schema ==
    /\ sc_pc = "on"
    /\ Len(schema_returns) < MaxSchemaCalls
    /\ \/ /\ ~wv_client
          /\ SchemaNoClient
       \/ /\ wv_client
          /\ "ok" \in CheckOutcomes
          /\ SchemaFound
       \/ /\ wv_client
          /\ \E check \in CheckOutcomes \ {"ok"}, create \in CreateOutcomes :
                SchemaCreateAfter(check, create)
    /\ UNCHANGED <<sc_pc, wv_client, is_v4, coreVars, adVars, setupVars, appVars, importVars>>

SchemaInit ==
    /\ Constructed
    /\ impl = "combined"
    /\ services = NoServices
    /\ ~OPENAI_AVAILABLE /\ ~openai_api_key /\ ~LLAMA_CLOUD_AVAILABLE
    /\ AdOff
    /\ SetupOff
    /\ AppOff
    /\ ImportOff
    /\ sc_pc = "on"
    /\ wv_client \in BOOLEAN
    /\ is_v4 \in BOOLEAN
    /\ schema_exists \in BOOLEAN
    /\ schema_log = <<>>
    /\ schema_returns = <<>>

SchemaNext == create_mbti_schema

SpecSchema == SchemaInit /\ [][SchemaNext]_vars

(***************************************************************************)
(* IntegratedMBTISystem.__init__ step by step (combined_integration.py),    *)
(* followed by generate_response calls on the instance it built.           *)
(***************************************************************************)
\* for attempt in range(3)
setup_attempts_more == 3 + 1

setup_attempts == 3

\* if attempt < 2: the attempts that are followed by a wait
setup_last_attempt == 2

\* what a step of __init__ leaves alone
SetupFrame ==
    UNCHANGED <<envVars, impl, model_allocation, use_llm, history_len, callVars, convVars,
                fmtVars, adVars, schemaVars, appVars, importVars>>

\* self.services["openai"] = value, and _setup_openai is over
SetupOpenAIEnds(value) ==
    /\ services' = [services EXCEPT !.openai = value]
    /\ setup_pc' = "llama_index"
    /\ setup_attempt' = 0

\* _setup_openai up to the connection test: the package, the key, the client
SetupOpenAI ==
    /\ setup_pc = "openai"
    /\ \/ /\ ~OPENAI_AVAILABLE
          /\ SetupOpenAIEnds(FALSE)
       \/ /\ OPENAI_AVAILABLE
          /\ ~openai_api_key
          /\ SetupOpenAIEnds(FALSE)
       \/ /\ OPENAI_AVAILABLE
          /\ openai_api_key
          /\ \/ SetupOpenAIEnds(FALSE)         \* OpenAI(api_key=...) raises
             \/ /\ setup_pc' = "test"
                /\ UNCHANGED <<services, setup_attempt>>
    /\ UNCHANGED setup_log
    /\ SetupFrame

\* one turn of the connection test loop
SetupOpenAITest(o) ==
    /\ setup_pc = "test"
    /\ \/ /\ o.ok
          /\ setup_log' = Append(setup_log, InvokeEv("openai", o))
          /\ SetupOpenAIEnds(TRUE)
       \/ /\ ~o.ok
          /\ IsRateLimit(o.text)
          /\ setup_attempt < setup_last_attempt
          /\ setup_log' = setup_log \o << InvokeEv("openai", o),
                                          SleepEv("openai", openai_wait_ms(setup_attempt)) >>
          /\ IF setup_attempt + 1 < setup_attempts
             THEN setup_attempt' = setup_attempt + 1 /\ UNCHANGED <<services, setup_pc>>
             ELSE SetupOpenAIEnds(FALSE)
       \/ /\ ~o.ok
          /\ IsRateLimit(o.text)
          /\ ~(setup_attempt < setup_last_attempt)
          /\ setup_log' = Append(setup_log, InvokeEv("openai", o))
          /\ IF setup_attempt + 1 < setup_attempts
             THEN setup_attempt' = setup_attempt + 1 /\ UNCHANGED <<services, setup_pc>>
             ELSE SetupOpenAIEnds(FALSE)
       \/ /\ ~o.ok
          /\ ~IsRateLimit(o.text)
          /\ setup_log' = Append(setup_log, InvokeEv("openai", o))
          /\ SetupOpenAIEnds(FALSE)
    /\ SetupFrame

\* if self.services["weaviate"] and LLAMA_INDEX_AVAILABLE: self._setup_llama_index()
SetupLlamaIndex ==
    /\ setup_pc = "llama_index"
    /\ setup_pc' = "done"
    /\ \E index_ok \in BOOLEAN :
          services' = [services EXCEPT
                           !.llama_index = services.weaviate /\ openai_api_key /\ index_ok]
    /\ UNCHANGED <<setup_attempt, setup_log>>
    /\ SetupFrame

\* __init__ up to the call of _setup_openai
SetupInit ==
    /\ OPENAI_AVAILABLE \in BOOLEAN
    /\ openai_api_key \in BOOLEAN
    /\ LLAMA_CLOUD_AVAILABLE \in BOOLEAN
    /\ impl = "combined"
    /\ \E weaviate \in BOOLEAN :
          services = [weaviate    |-> weaviate,
                      openai      |-> FALSE,
                      llama_cloud |-> LLAMA_CLOUD_AVAILABLE,
                      llama_index |-> FALSE]
    /\ model_allocation = initialize_model_allocation(LLAMA_CLOUD_AVAILABLE, OPENAI_AVAILABLE)
    /\ use_llm = FALSE
    /\ history_len = 0
    /\ CallIdle
    /\ ConvOff
    /\ FmtOff
    /\ AdOff
    /\ SchemaOff
    /\ AppOff
    /\ ImportOff
    /\ setup_pc = "openai"
    /\ setup_attempt = 0
    /\ setup_log = <<>>

SetupNext ==
    \/ SetupOpenAI
    \/ \E o \in BackendOutcomes : SetupOpenAITest(o)
    \/ SetupLlamaIndex
    \/ \E t \in {"INTJ", "ISFJ"} : setup_pc = "done" /\ generate_response("hello", t)
    \/ CallStep
    \/ Return

SpecSetup == SetupInit /\ [][SetupNext]_vars

(***************************************************************************)
(* The chat handlers of app.py: the script runs once per user input, in     *)
(* "Single Personality" or "Multi-Personality Chat" mode, on the           *)
(* chat_history of the session.  An entry is {"user": text} or             *)
(* {"response": dict}; the dict is the sequence of its items.              *)
(***************************************************************************)
MaxInputs == 3

UserInputs == {"hello", "Mars"}

\* what st.session_state.mbti_chat is and does in a run: it is None, it
\* answers, or it raises
ChatSystems == {"none", "answers", "raises"}

\* the types chosen in the widgets of the two modes
SelectedType == "ENTP"
SelectedTypes == <<"INTJ", "ISFJ">>

UserEntry(text) == [user |-> text]

ResponseEntry(dict) == [response |-> dict]

IsUserEntry(message) == "user" \in DOMAIN message

\* the answer of the chat system for one type
AdvancedText == "Sure, I think so."

\* `response` / `responses` of a run: from the chat system, or from the
\* simple functions when it is None or has raised
RunResponse(mode, user_input, system) ==
    IF mode = "single"
    THEN << <<SelectedType,
              IF system = "answers"
              THEN AdvancedText
              ELSE simulate_mbti_response(SelectedType, user_input)>> >>
    ELSE [i \in 1..Len(SelectedTypes) |->
              <<SelectedTypes[i],
                IF system = "answers"
                THEN AdvancedText
                ELSE simulate_mbti_response(SelectedTypes[i], user_input)>>]

\* an append that is made whatever the last entry is
AppendUser_always(history, user_input) == Append(history, UserEntry(user_input))

\* if not chat_history or "user" not in chat_history[-1]: append({"user": user_input})
AppendUser(history, user_input) ==
    IF history = <<>> \/ ~IsUserEntry(history[Len(history)])
    THEN Append(history, UserEntry(user_input))
    ELSE history

\* one run of the script for a user input, to its end (the rerun request)
HandleInput(mode, user_input, system) ==
    /\ app_pc = "on"
    /\ app_inputs < MaxInputs
    /\ chat_history' = Append(AppendUser(chat_history, user_input),
                              ResponseEntry(RunResponse(mode, user_input, system)))
    /\ app_inputs' = app_inputs + 1
    /\ app_last' = <<mode, user_input, system, "handled">>
    /\ UNCHANGED <<app_pc, coreVars, adVars, schemaVars, setupVars, importVars>>

\* a run that is stopped while the response is awaited (the browser session
\* asks for a rerun or goes away): the user entry is in, no response is
RunStopped(mode, user_input) ==
    /\ app_pc = "on"
    /\ app_inputs < MaxInputs
    /\ chat_history' = AppendUser(chat_history, user_input)
    /\ app_inputs' = app_inputs + 1
    /\ app_last' = <<mode, user_input, "none", "stopped">>
    /\ UNCHANGED <<app_pc, coreVars, adVars, schemaVars, setupVars, importVars>>

AppInit ==
    /\ Constructed
    /\ impl = "combined"
    /\ services = NoServices
    /\ ~OPENAI_AVAILABLE /\ ~openai_api_key /\ ~LLAMA_CLOUD_AVAILABLE
    /\ AdOff
    /\ SchemaOff
    /\ SetupOff
    /\ ImportOff
    /\ app_pc = "on"
    /\ chat_history = <<>>
    /\ app_inputs = 0
    /\ app_last = <<>>

AppNext ==
    \/ \E mode \in {"single", "multi"}, user_input \in UserInputs, system \in ChatSystems :
          HandleInput(mode, user_input, system)
    \/ \E mode \in {"single", "multi"}, user_input \in UserInputs :
          RunStopped(mode, user_input)

SpecApp == AppInit /\ [][AppNext]_vars

(***************************************************************************)
(* generate_mbti_data (data_import.py): the loop over the 16 x 6 grid of   *)
(* (type, category) pairs, step by step.                                   *)
(***************************************************************************)
CATEGORIES ==
    << "communication_style", "cognitive_functions", "values_and_motivations",
       "stress_reactions", "career_preferences", "relationship_patterns" >>

total_items == Len(MBTI_TYPES) * Len(CATEGORIES)

import_max_retries_more == 5 + 1

import_max_retries == 5

\* retry_wait = (2 ** attempt) + 1, the seconds slept, here in milliseconds
retry_wait_ms(a) == (Pow2(a) + 1) * 1000

\* what the import leaves alone
ImportFrame == UNCHANGED <<coreVars, adVars, schemaVars, setupVars, appVars>>

\* the function up to the loops: the key and the OpenAI client
ImportStart ==
    /\ im_pc = "start"
    /\ \/ /\ ~openai_api_key
          /\ im_pc' = "returned"
          /\ im_returned' = "False"
          /\ UNCHANGED <<type_idx, category_idx, im_exists>>
       \/ /\ openai_api_key
          /\ ~OPENAI_AVAILABLE                \* ImportError, or OpenAI(...) raises
          /\ im_pc' = "returned"
          /\ im_returned' = "False"
          /\ UNCHANGED <<type_idx, category_idx, im_exists>>
       \/ /\ openai_api_key
          /\ OPENAI_AVAILABLE
          /\ im_pc' = "check"
          /\ type_idx' = 1
          /\ category_idx' = 1
          /\ im_exists' \in BOOLEAN
          /\ UNCHANGED im_returned
    /\ UNCHANGED <<completed, im_checked, im_attempt, im_log, im_adds>>
    /\ ImportFrame

\* completed += 1 and the pair is done
PairDone ==
    /\ completed' = completed + 1
    /\ im_pc' = "next"

\* the existence query for the pair: it returns (with or without data) or raises
ImportCheck(answered) ==
    /\ im_pc = "check"
    /\ \/ /\ answered
          /\ im_exists
          /\ im_checked' = "found"
          /\ PairDone
       \/ /\ answered
          /\ ~im_exists
          /\ im_checked' = "empty"
          /\ im_pc' = "generate"
          /\ UNCHANGED completed
       \/ /\ ~answered
          /\ im_checked' = "raised"
          /\ im_pc' = "generate"
          /\ UNCHANGED completed
    /\ UNCHANGED <<type_idx, category_idx, im_exists, im_attempt, im_log, im_adds, im_returned>>
    /\ ImportFrame

\* the retry loop goes to its next turn, or is over
NextAttempt ==
    IF im_attempt + 1 < import_max_retries
    THEN im_attempt' = im_attempt + 1 /\ UNCHANGED <<im_pc, completed>>
    ELSE UNCHANGED im_attempt /\ PairDone

\* what batch.add_data_object does: it adds the object, or raises
AddOutcomes == {"added", "429 too many requests", "connection refused"}

\* str(e) of the exception of a turn of the retry loop, "" when none is raised
AttemptError(o, add) ==
    IF ~o.ok THEN o.text
    ELSE IF add /= "added" THEN add
    ELSE ""

\* how a turn of the retry loop ended: with the completion's text, or with str(e)
AttemptOutcome(o, add) ==
    IF AttemptError(o, add) = "" THEN o ELSE [ok |-> FALSE, text |-> AttemptError(o, add)]

\* one turn of the retry loop: the completion, then batch.add_data_object
ImportAttempt(o, add) ==
    /\ im_pc = "generate"
    /\ ~o.ok => add = "added"                 \* add_data_object is not reached
    /\ LET e == AttemptError(o, add)
       IN  \/ /\ e = ""
              /\ im_log' = Append(im_log, InvokeEv("openai", AttemptOutcome(o, add)))
              /\ im_adds' = im_adds + 1
              /\ UNCHANGED im_attempt
              /\ PairDone
           \/ /\ e /= ""
              /\ IsRateLimit(e)
              /\ im_attempt < import_max_retries - 1
              /\ im_log' = im_log \o << InvokeEv("openai", AttemptOutcome(o, add)),
                                        SleepEv("openai", retry_wait_ms(im_attempt)) >>
              /\ UNCHANGED im_adds
              /\ NextAttempt
           \/ /\ e /= ""
              /\ IsRateLimit(e)
              /\ ~(im_attempt < import_max_retries - 1)
              /\ im_log' = Append(im_log, InvokeEv("openai", AttemptOutcome(o, add)))
              /\ UNCHANGED im_adds
              /\ NextAttempt
           \/ /\ e /= ""
              /\ ~IsRateLimit(e)
              /\ im_log' = Append(im_log, InvokeEv("openai", AttemptOutcome(o, add)))
              /\ UNCHANGED <<im_adds, im_attempt>>
              /\ PairDone
    /\ UNCHANGED <<type_idx, category_idx, im_exists, im_checked, im_returned>>
    /\ ImportFrame

\* the two for loops step on, or the function returns True
ImportNextPair ==
    /\ im_pc = "next"
    /\ \/ /\ category_idx < Len(CATEGORIES)
          /\ category_idx' = category_idx + 1
          /\ im_pc' = "check"
          /\ im_exists' \in BOOLEAN
          /\ UNCHANGED <<type_idx, im_returned>>
       \/ /\ category_idx = Len(CATEGORIES)
          /\ type_idx < Len(MBTI_TYPES)
          /\ type_idx' = type_idx + 1
          /\ category_idx' = 1
          /\ im_pc' = "check"
          /\ im_exists' \in BOOLEAN
          /\ UNCHANGED im_returned
       \/ /\ category_idx = Len(CATEGORIES)
          /\ type_idx = Len(MBTI_TYPES)
          /\ im_pc' = "returned"
          /\ im_returned' = "True"
          /\ UNCHANGED <<type_idx, category_idx, im_exists>>
    /\ IF im_pc' = "check"
       THEN /\ im_checked' = ""
            /\ im_attempt' = 0
            /\ im_log' = <<>>
            /\ im_adds' = 0
       ELSE UNCHANGED <<im_checked, im_attempt, im_log, im_adds>>
    /\ UNCHANGED completed
    /\ ImportFrame

ImportInit ==
    /\ Constructed
    /\ impl = "combined"
    /\ services = NoServices
    /\ ~LLAMA_CLOUD_AVAILABLE
    /\ AdOff
    /\ SchemaOff
    /\ SetupOff
    /\ AppOff
    /\ im_pc = "start"
    /\ type_idx = 0
    /\ category_idx = 0
    /\ completed = 0
    /\ im_exists = FALSE
    /\ PairLocalsClear
    /\ im_returned = ""

ImportNext ==
    \/ ImportStart
    \/ \E answered \in BOOLEAN : ImportCheck(answered)
    \/ \E o \in BackendOutcomes, add \in AddOutcomes : ImportAttempt(o, add)
    \/ ImportNextPair

SpecImport == ImportInit /\ [][ImportNext]_vars

(***************************************************************************)
(* Formatter harness: texts are up to MaxLeads leading chunks (a known     *)
(* prefix of the type, or a blank) followed by a body.                     *)
(***************************************************************************)

MaxLeads == 2

Leads(mbti_type) ==
    { prefixes_to_remove(mbti_type)[i] : i \in 1..6 } \cup {" "}

Bodies == {"", "hi", "hi!", "hi?", "Wow! ok", " hi "}

RECURSIVE LeadStrings(_, _)
LeadStrings(mbti_type, n) ==
    IF n = 0 THEN {""}
    ELSE LET shorter == LeadStrings(mbti_type, n - 1)
         IN  shorter \cup { l \o s : l \in Leads(mbti_type), s \in shorter }

RawTexts(mbti_type) ==
    { l \o b : l \in LeadStrings(mbti_type, MaxLeads), b \in Bodies }

FmtInit ==
    /\ OPENAI_AVAILABLE = FALSE
    /\ openai_api_key = FALSE
    /\ LLAMA_CLOUD_AVAILABLE = FALSE
    /\ impl = "combined"
    /\ services = NoServices
    /\ model_allocation = initialize_model_allocation(FALSE, FALSE)
    /\ use_llm = FALSE
    /\ history_len = 0
    /\ CallIdle
    /\ ConvOff
    /\ fpc = "input"
    /\ fmt_type \in TypeCodes
    /\ raw_text \in RawTexts(fmt_type)
    /\ fmt_rnd = <<>>
    /\ fmt_out = ""
    /\ fmt_out2 = ""
    /\ AuxOff

\* format_response(raw_text, fmt_type)
Format(rnd) ==
    /\ fpc = "input"
    /\ fpc' = "once"
    /\ fmt_out' = format_response(raw_text, fmt_type, rnd)
    /\ fmt_rnd' = <<rnd>>
    /\ UNCHANGED <<raw_text, fmt_type, fmt_out2, envVars, instVars, callVars, convVars, auxVars>>

\* format_response(format_response(raw_text, fmt_type), fmt_type)
FormatAgain(rnd) ==
    /\ fpc = "once"
    /\ fpc' = "twice"
    /\ fmt_out2' = format_response(fmt_out, fmt_type, rnd)
    /\ fmt_rnd' = Append(fmt_rnd, rnd)
    /\ UNCHANGED <<raw_text, fmt_type, fmt_out, envVars, instVars, callVars, convVars, auxVars>>

FmtNext ==
    \/ \E rnd \in RandomDraws(fmt_type) : Format(rnd)
    \/ \E rnd \in RandomDraws(fmt_type) : FormatAgain(rnd)

SpecFormat == FmtInit /\ [][FmtNext]_vars

(***************************************************************************)
(* Properties of the fallback pipeline (checked under Spec)                *)
(***************************************************************************)

\* the last element of a non-empty sequence
LastOf(seq) == seq[Len(seq)]

\* the backend calls made to `provider` in the call so far, in order
Outs(provider) ==
    SelectSeq(log, LAMBDA e : e.ev = "invoke" /\ e.provider = provider)

\* a backend call that gave the pipeline a response (generate_response
\* takes an empty Llama Cloud response for none)
IsSuccess(e) ==
    /\ e.ev = "invoke"
    /\ e.ok
    /\ e.provider = "llama_cloud" => e.text # ""

\* the text of a successful backend call as it is handed to the formatter
ProvidedText(e) == IF e.provider = "openai" THEN Strip(e.text) ELSE e.text

\* format(text, type), over the emoji draws
Formatted(text, mbti_type) ==
    { format_response(text, mbti_type, r) : r \in RandomDraws(mbti_type) }

NoProviderAnswered == \A i \in 1..Len(log) : ~IsSuccess(log[i])

\* C1: for a catalog type and a non-empty query, a finished call has
\* returned a non-empty string and has not raised.
C1_RespondsNonEmptyNeverRaises ==
    (pc = "done" /\ call_type \in CatalogTypes) => (~raised /\ result # "")

\* C2: when the allocated provider (Llama Cloud) has failed and the next
\* provider (OpenAI) is available, the call goes on to OpenAI instead of
\* ending in the simulation with OpenAI untried.
C2_NextProviderTriedAfterFailure ==
    ( /\ pc = "done"
      /\ impl = "combined"
      /\ \E i \in 1..Len(Outs("llama_cloud")) :
            ~Outs("llama_cloud")[i].ok /\ Outs("llama_cloud")[i].text \in OtherErrors
      /\ NoProviderAnswered
      /\ services.openai )
    => Len(Outs("openai")) >= 1

\* C3: a successful backend call is the last thing a call does: the call is
\* over, nothing is invoked or simulated after it, and the result is that
\* provider's text, formatted.
C3_FirstSuccessReturns ==
    impl \in {"combined", "mbti_chat"} =>
        \A i \in 1..Len(log) :
            IsSuccess(log[i]) =>
                /\ i = Len(log)
                /\ pc = "done"
                /\ source = log[i].provider
                /\ result \in Formatted(ProvidedText(log[i]), call_type)

\* C3 witness: the first provider answered while two more stood ready
C3_AnsweredWithProvidersLeft ==
    /\ pc = "done"
    /\ impl = "combined"
    /\ services.llama_index /\ services.llama_cloud /\ services.openai
    /\ model = "llama_cloud"
    /\ Len(log) = 1
    /\ source = "llama_index"
    /\ result = "Sure, I think so."

\* C4: a provider is invoked at most 3 times in a call; a call whose last
\* call to the provider was rate limited has made exactly 3 calls to it and
\* ends in the simulation; two rate limits followed by a response make a
\* call that returns this response, formatted.
C4_RateLimitRetriedThreeTimes ==
    impl = "combined" =>
        \A p \in {"openai", "llama_cloud"} :
            LET outs == Outs(p)
                n == Len(outs)
            IN  /\ n <= 3
                /\ ( /\ pc = "done"
                     /\ n > 0
                     /\ ~outs[n].ok
                     /\ outs[n].text \in RateLimitErrors )
                   => (n = 3 /\ source = "simulation" /\ log[Len(log)].ev = "simulate")
                /\ ( /\ pc = "done"
                     /\ n = 3
                     /\ ~outs[1].ok /\ outs[1].text \in RateLimitErrors
                     /\ ~outs[2].ok /\ outs[2].text \in RateLimitErrors
                     /\ IsSuccess(outs[3]) )
                   => (source = p /\ result \in Formatted(ProvidedText(outs[3]), call_type))

\* C4 witness: OpenAI was rate limited twice and answered the third time
C4_ThirdAttemptAnswered ==
    /\ pc = "done"
    /\ impl = "combined"
    /\ source = "openai"
    /\ Len(Outs("openai")) = 3
    /\ Outs("openai")[1].text \in RateLimitErrors
    /\ Outs("openai")[2].text \in RateLimitErrors
    /\ Outs("openai")[3].ok

\* C5: after a backend call has failed with an error that is no rate limit,
\* the same provider is neither waited for nor invoked again in the call.
C5_OtherErrorsNotRetried ==
    \A i \in 1..Len(log) :
        (log[i].ev = "invoke" /\ ~log[i].ok /\ log[i].text \in OtherErrors)
        => \A j \in (i + 1)..Len(log) : log[j].provider # log[i].provider

C15_CallTerminates ==
    /\ [](impl = "combined" =>
            \A p \in {"llama_index", "llama_cloud", "openai"} : Len(Outs(p)) <= 3)
    /\ (impl = "combined" /\ pc \notin {"idle", "done"})
       ~> ( /\ pc = "done"
            /\ ~raised
            /\ log # <<>>
            /\ LET last == log[Len(log)]
               IN  \/ source = "simulation" /\ last.ev = "simulate"
                   \/ source # "simulation" /\ IsSuccess(last) /\ last.provider = source )

\* C15 witness: a call ended in the simulation after three failed calls to
\* Llama Cloud
C15_EndedAfterThreeFailures ==
    /\ impl = "combined"
    /\ pc = "done"
    /\ source = "simulation"
    /\ Len(Outs("llama_cloud")) = 3
    /\ \A i \in 1..3 : ~Outs("llama_cloud")[i].ok

\* the waits taken for OpenAI in the call so far, in order
OpenAISleeps ==
    SelectSeq(log, LAMBDA e : e.ev = "sleep" /\ e.provider = "openai")

RateLimitFailure(e) ==
    e.ev = "invoke" /\ ~e.ok /\ e.text \in RateLimitErrors

\* C16: in the OpenAI retry loop the k-th wait of a call (after 0-based
\* attempt k-1) lasts 2^(k-1) + 1 seconds; a wait follows a rate-limited
\* attempt directly and only that; there are at most two waits, and after a
\* third rate-limited attempt the call goes on without a wait.
C16_BackoffIsPowerOfTwoPlusOne ==
    impl = "combined" =>
        /\ Len(OpenAISleeps) <= 2
        /\ \A k \in 1..Len(OpenAISleeps) :
              OpenAISleeps[k].ms = (2 ^ (k - 1) + 1) * 1000
        /\ \A i \in 1..Len(log) :
              (log[i].ev = "sleep" /\ log[i].provider = "openai") =>
                  /\ i > 1
                  /\ RateLimitFailure(log[i - 1])
                  /\ log[i - 1].provider = "openai"
        /\ \A i \in 1..Len(log) :
              (RateLimitFailure(log[i]) /\ log[i].provider = "openai" /\ i < Len(log)) =>
                  IF Len(SelectSeq(SubSeq(log, 1, i),
                                   LAMBDA e : e.ev = "invoke" /\ e.provider = "openai")) < 3
                  THEN log[i + 1].ev = "sleep" /\ log[i + 1].provider = "openai"
                  ELSE log[i + 1].ev = "simulate"

\* C16 witness: three rate-limited attempts, waits of 2 s and 3 s between
\* them, then the simulation
C16_TwoWaitsThenSimulation ==
    /\ impl = "combined"
    /\ pc = "done"
    /\ Len(log) = 6
    /\ RateLimitFailure(log[1]) /\ log[1].provider = "openai"
    /\ log[2].ev = "sleep" /\ log[2].ms = 2000
    /\ RateLimitFailure(log[3])
    /\ log[4].ev = "sleep" /\ log[4].ms = 3000
    /\ RateLimitFailure(log[5])
    /\ log[6].ev = "simulate"

\* C17 (as stated): every analytical type is allocated to Llama Cloud if it
\* is available and to OpenAI otherwise, every other type to OpenAI.
C17_AllocationByTypeGroup ==
    impl = "combined" =>
        /\ DOMAIN model_allocation = CatalogTypes
        /\ \A t \in CatalogTypes :
              model_allocation[t] =
                  IF t \in {"INTJ", "INTP", "ENTJ", "ENTP", "ISTJ", "ESTJ", "ISTP"}
                     /\ LLAMA_CLOUD_AVAILABLE
                  THEN "llama_cloud"
                  ELSE "openai"

\* C17 (amended): the allocation has one entry for each of the 16 types;
\* with the OpenAI package there, analytical types go to Llama Cloud if it
\* is available and to OpenAI otherwise, and the 9 other types to OpenAI;
\* without the OpenAI package all 16 go to Llama Cloud if it is available
\* and to "simulation" if it is not.
C17_AllocationWithOverrides ==
    impl = "combined" =>
        /\ DOMAIN model_allocation = CatalogTypes
        /\ Cardinality(DOMAIN model_allocation) = 16
        /\ \A t \in CatalogTypes :
              model_allocation[t] =
                  IF OPENAI_AVAILABLE
                  THEN (IF t \in {"INTJ", "INTP", "ENTJ", "ENTP", "ISTJ", "ESTJ", "ISTP"}
                           /\ LLAMA_CLOUD_AVAILABLE
                        THEN "llama_cloud"
                        ELSE "openai")
                  ELSE (IF LLAMA_CLOUD_AVAILABLE THEN "llama_cloud" ELSE "simulation")

\* C17 witness: without the OpenAI package a type outside the analytical
\* group is allocated to Llama Cloud, and a call for it is answered there
C17_OtherTypeOnLlamaCloud ==
    /\ impl = "combined"
    /\ ~OPENAI_AVAILABLE
    /\ LLAMA_CLOUD_AVAILABLE
    /\ model_allocation["ISFJ"] = "llama_cloud"
    /\ pc = "done"
    /\ call_type = "ISFJ"
    /\ source = "llama_cloud"

\* the backend calls of the call so far, in order
Invocations == SelectSeq(log, LAMBDA e : e.ev = "invoke")

OtherTypes == CatalogTypes \ {"INTJ", "INTP", "ENTJ", "ENTP", "ISTJ", "ESTJ", "ISTP"}

C20_OnlyAvailableProvidersInvoked ==
    impl = "combined" =>
        /\ \A i \in 1..Len(log) :
              log[i].ev \in {"invoke", "sleep"} => services[log[i].provider]
        /\ ( /\ pc = "done"
             /\ ~services.llama_index /\ ~services.llama_cloud /\ ~services.openai )
           => (log = <<SimulateEv>> /\ source = "simulation")

\* C20 witness: LlamaIndex and OpenAI are marked unavailable, Llama Cloud is
\* available and is the one provider invoked
C20_SkippedToLlamaCloud ==
    /\ impl = "combined"
    /\ ~services.llama_index
    /\ ~services.openai
    /\ services.llama_cloud
    /\ pc = "done"
    /\ source = "llama_cloud"
    /\ Len(log) = 1

\* the call so far holds a backend call of `provider` that failed for a
\* reason other than a rate limit (bad credentials, no connection)
CredentialFailure(provider) ==
    \E i \in 1..Len(log) :
        /\ log[i].ev = "invoke"
        /\ log[i].provider = provider
        /\ ~log[i].ok
        /\ log[i].text \in OtherErrors

NotInvoked(provider) ==
    \A i \in 1..Len(log) : ~(log[i].ev = "invoke" /\ log[i].provider = provider)

\* C21: once a generate_response call has seen a credential or connectivity
\* failure of Llama Cloud or of OpenAI, no later call on the instance
\* invokes that provider again.
C21_FailureShortCircuitsLaterCalls ==
    /\ [](CredentialFailure("openai") =>
             [](pc = "idle" => []NotInvoked("openai")))
    /\ [](CredentialFailure("llama_cloud") =>
             [](pc = "idle" => []NotInvoked("llama_cloud")))

\* C22: a call with a type code outside the catalog goes through the same
\* pipeline: it does not raise, its result is not an error about the type,
\* and when no provider answered the result is the simulator's generic
\* template around the query; the catalog lookups of the code give "".
C22_UnknownTypePassedThrough ==
    (pc = "done" /\ call_type \notin CatalogTypes) =>
        /\ ~raised
        /\ source # "error"
        /\ ~StartsWith(result, "Error: ")
        /\ NoProviderAnswered =>
              result = "Tell me more about your thoughts on " \o call_query
                           \o ". I'd love to hear your perspective!"
        /\ get_type_nickname(call_type) = ""
        /\ get_type_description(call_type) = ""
        /\ get_type_cognitive_functions(call_type) = ""

\* C25: the provider name that generate_response logs for a call
\* ("Using <model> for <type>", the local `model`) is the provider that
\* produced the returned text, and the returned text does not hold that name.
C25_LoggedProviderProducedTheText ==
    (impl = "combined" /\ pc = "done") =>
        /\ model = source
        /\ ~Contains(result, source)

(***************************************************************************)
(* Properties of multi_chat and group_discussion (checked under SpecConv)  *)
(***************************************************************************)

\* the number of participants, and the position in `calls` of the call of
\* participant i in round r
NumParticipants == Len(participants)

CallAt(r, i) == (r - 1) * NumParticipants + i

\* the round r response of the last participant of type t
LastResponseOf(r, t) ==
    LET last == CHOOSE j \in 1..NumParticipants :
                    /\ participants[j] = t
                    /\ \A l \in (j + 1)..NumParticipants : participants[l] # t
    IN  calls[CallAt(r, last)].result

\* the round r responses of the participants of another type than that of
\* participant i, as "type: text" lines in participant order
OthersOfRound(r, i) ==
    LET others == SelectSeq(participants, LAMBDA t : t # participants[i])
    IN  Join("\n", [j \in 1..Len(others) |->
                        others[j] \o ": " \o LastResponseOf(r, others[j])])

\* the query that the call at position k of the discussion is to carry
ExpectedQuery(k) ==
    LET r == ((k - 1) \div NumParticipants) + 1
        i == ((k - 1) % NumParticipants) + 1
    IN  IF r = 1 THEN conv_topic
        ELSE DiscussionPrompt(conv_topic, OthersOfRound(r - 1, i), participants[i])

\* C11: in a discussion the calls are made round by round in participant
\* order; the prompt of participant p in round r >= 2 carries exactly the
\* round r-1 responses of the other participants as "type: text" lines in
\* participant order (not p's own, none of an earlier round), and it is
\* issued only when all calls of round r-1 are finished.
C11_ContextIsPreviousRoundOfOthers ==
    conv_op = "group_discussion" =>
        /\ \A k \in 1..Len(calls) :
              /\ calls[k].round = ((k - 1) \div NumParticipants) + 1
              /\ calls[k].type = participants[((k - 1) % NumParticipants) + 1]
              /\ calls[k].query = ExpectedQuery(k)
        /\ conv_pc = "calling" =>
              /\ Len(calls) = CallAt(round_num, idx) - 1
              /\ call_query = ExpectedQuery(Len(calls) + 1)

\* C11 witness: three participants, round 2 over: the prompt of the first
\* carried the round 1 responses of the second and the third, not its own
C11_SecondRoundPromptOfFirst ==
    /\ conv_op = "group_discussion"
    /\ impl = "combined"
    /\ participants = <<"INTJ", "ISFJ", "ENTP">>
    /\ Len(calls) >= 4
    /\ calls[1].result # calls[2].result
    /\ Contains(calls[4].query,
                "ISFJ: " \o calls[2].result \o "\nENTP: " \o calls[3].result)
    /\ ~Contains(calls[4].query, "INTJ: ")

\* C12: a discussion of rounds >= 1 returns 1 + |participants| * rounds
\* entries: the header, then one entry per call in round order and in
\* participant order within a round, "type: text" in round 1 and
\* "type (Round r): text" in a round r >= 2.
C12_EntriesPerRoundAndParticipant ==
    (conv_op = "group_discussion" /\ conv_pc = "returned" /\ num_rounds >= 1) =>
        /\ Len(discussion) = 1 + NumParticipants * num_rounds
        /\ Len(calls) = NumParticipants * num_rounds
        /\ discussion[1] = "Group discussion on: " \o conv_topic \o "\nParticipants: "
                           \o Join(", ", participants)
        /\ \A r \in 1..num_rounds, i \in 1..NumParticipants :
              LET call == calls[CallAt(r, i)]
                  tag == IF r = 1 THEN "" ELSE " (Round " \o ToString(r) \o ")"
              IN  /\ call.round = r
                  /\ call.type = participants[i]
                  /\ discussion[1 + CallAt(r, i)] =
                         participants[i] \o tag \o ": " \o call.result

\* C12 witness: two participants, two rounds: five entries, the fourth is
\* the first participant's with the tag of round 2, the second has no tag
C12_FiveEntriesTwoTagged ==
    /\ conv_op = "group_discussion"
    /\ conv_pc = "returned"
    /\ impl = "mbti_chat"
    /\ participants = <<"INTJ", "ISFJ">>
    /\ num_rounds = 2
    /\ Len(discussion) = 5
    /\ StartsWith(discussion[2], "INTJ: ")
    /\ StartsWith(discussion[4], "INTJ (Round 2): ")

\* the elements of a sequence in the order of their first occurrence
RECURSIVE FirstOccurrences(_)
FirstOccurrences(seq) ==
    IF seq = <<>> THEN <<>>
    ELSE LET front == FirstOccurrences(SubSeq(seq, 1, Len(seq) - 1))
             last == seq[Len(seq)]
         IN  IF \E i \in 1..Len(front) : front[i] = last
             THEN front
             ELSE Append(front, last)

\* C13: the mapping returned by multi_chat has as keys, in the caller's
\* order, the known types of types_to_include when there is one, whatever
\* num_types is; otherwise min(num_types, 16) distinct catalog types; the
\* value of a key is the result of a respond call for that type with the
\* query, and no other call is made.
C13_KeysAreTheSelectedTypes ==
    (conv_op = "multi_chat" /\ conv_pc = "returned") =>
        LET given == conv_args[1]
            count == conv_args[2]
            known == SelectSeq(given, LAMBDA t : t \in CatalogTypes)
            keys == [i \in 1..Len(responses) |-> responses[i][1]]
        IN  /\ IF known # <<>>
               THEN keys = FirstOccurrences(known)
               ELSE /\ Len(keys) = (IF count < 16 THEN count ELSE 16)
                    /\ \A i \in 1..Len(keys) : keys[i] \in CatalogTypes
                    /\ \A i, j \in 1..Len(keys) : keys[i] = keys[j] => i = j
            /\ \A k \in 1..Len(calls) :
                  /\ calls[k].query = conv_topic
                  /\ \E i \in 1..Len(keys) : keys[i] = calls[k].type
            /\ \A i \in 1..Len(responses) :
                  \E k \in 1..Len(calls) :
                      /\ calls[k].type = responses[i][1]
                      /\ calls[k].result = responses[i][2]
                      /\ \A l \in (k + 1)..Len(calls) : calls[l].type # calls[k].type
            /\ known = FirstOccurrences(known) => Len(calls) = Len(keys)

\* C13 witness: three codes given, one of them unknown, and num_types 0:
\* the two known types answer, in the caller's order
C13_InclusionOverridesCount ==
    /\ conv_op = "multi_chat"
    /\ conv_pc = "returned"
    /\ impl = "combined"
    /\ conv_args = <<<<"ISFJ", "XXXX", "INTJ">>, 0>>
    /\ Len(responses) = 2
    /\ responses[1][1] = "ISFJ"
    /\ responses[2][1] = "INTJ"
    /\ Len(calls) = 2

\* C14: a provider failure during a discussion does not end the
\* discussion: no exception leaves group_discussion, and a returned
\* discussion has all its 1 + |participants| * rounds entries.
C14_DiscussionSurvivesFailures ==
    conv_op = "group_discussion" =>
        /\ conv_pc # "raised"
        /\ (conv_pc = "returned" /\ num_rounds >= 1) =>
              Len(discussion) = 1 + NumParticipants * num_rounds

C28_ServicesAndAllocationReadOnly ==
    [][impl = "combined" => UNCHANGED <<services, model_allocation>>]_vars

\* C28 witness: in a group discussion on an IntegratedMBTISystem a call has
\* just ended after OpenAI failed, and OpenAI is still marked available
C28_AvailableAfterFailure ==
    /\ impl = "combined"
    /\ conv_op = "group_discussion"
    /\ conv_pc = "calling"
    /\ pc = "done"
    /\ Outs("openai") # <<>>
    /\ ~LastOf(Outs("openai")).ok
    /\ services.openai
    /\ model_allocation[call_type] = "openai"

(***************************************************************************)
(* Properties of the Llama Cloud adapter (checked under SpecAdapter)       *)
(***************************************************************************)

\* C24: generate_llama_response never raises.  It returns None without a
\* backend call when the package is missing, when no key is configured and
\* when the client cannot be created, and None after a backend error on its
\* last attempt; any other return value is the content of a backend call
\* that succeeded.  generate_response takes a Llama Cloud step that gave
\* None or an empty text for a failure: the call does not raise and ends
\* with a result of a later step.
C24_AdapterReturnsNoneNeverRaises ==
    /\ ~ad_raised
    /\ ad_pc = "done" =>
          /\ ~llama_module_available => (ad_result = None /\ ad_log = <<>>)
          /\ llama_client = None => (ad_result = None /\ ad_log = <<>>)
          /\ ad_log = <<>> => ad_result = None
          /\ (ad_log # <<>> /\ ~LastOf(ad_log).ok) => ad_result = None
          /\ ad_result # None =>
                /\ ad_log # <<>>
                /\ LastOf(ad_log).ev = "invoke"
                /\ LastOf(ad_log).ok
                /\ LastOf(ad_log).text = ad_result
    /\ ( /\ pc = "done"
         /\ Outs("llama_cloud") # <<>>
         /\ \A i \in 1..Len(Outs("llama_cloud")) : ~IsSuccess(Outs("llama_cloud")[i]) )
       => /\ ~raised
          /\ source \in {"openai", "simulation"}
          /\ LastOf(log).provider # "llama_cloud"
          /\ result # ""

\* C24 witness: the package is there, the client exists, the backend failed
\* on each of the three attempts and the adapter returned None
C24_NoneAfterThreeErrors ==
    /\ ad_pc = "done"
    /\ llama_module_available
    /\ llama_client = "client"
    /\ Len(ad_log) = 5
    /\ ~LastOf(ad_log).ok
    /\ ad_result = None
    /\ ~ad_raised

(***************************************************************************)
(* Properties of create_mbti_schema (checked under SpecSchema)             *)
(***************************************************************************)

SchemaGets == SelectSeq(schema_log, LAMBDA e : e.op = GetOp)

SchemaCreates == SelectSeq(schema_log, LAMBDA e : e.op = CreateOp)

\* C26: create_mbti_schema sends a create request only when the class does
\* not exist, whatever made the existence check fail; a call made when the
\* class exists returns True; over any number of calls at most one create
\* succeeds.
C26_CreateOnlyIfAbsent ==
    sc_pc = "on" =>
        /\ \A i \in 1..Len(SchemaCreates) : ~SchemaCreates[i].existed
        /\ wv_client =>
              \A k \in 1..Len(schema_returns) :
                  SchemaGets[k].existed => schema_returns[k]
        /\ Len(SelectSeq(SchemaCreates, LAMBDA e : e.outcome = "created")) <= 1

(***************************************************************************)
(* Properties of the construction (checked under SpecSetup)                *)
(***************************************************************************)

SetupTests == SelectSeq(setup_log, LAMBDA e : e.ev = "invoke")

\* C27: once __init__ is over, services["openai"] is true exactly when the
\* package and a key were there and the last test completion succeeded; the
\* test makes at most 3 requests; a request that is not the last one failed
\* on a rate limit and was followed by a wait, so any other error ended the
\* test at once; and with services["openai"] false no generate_response call
\* invokes OpenAI.
C27_OpenAIServiceIffTestSucceeded ==
    /\ Len(SetupTests) <= 3
    /\ \A i \in 1..Len(setup_log) :
          (setup_log[i].ev = "invoke" /\ i < Len(setup_log)) =>
              /\ RateLimitFailure(setup_log[i])
              /\ setup_log[i + 1].ev = "sleep"
    /\ setup_log # <<>> => (OPENAI_AVAILABLE /\ openai_api_key)
    /\ setup_pc \in {"llama_index", "done"} =>
          /\ services.openai = (setup_log # <<>> /\ LastOf(setup_log).ok
                                   /\ LastOf(setup_log).ev = "invoke")
          /\ services.openai => (OPENAI_AVAILABLE /\ openai_api_key)
          /\ (setup_log # <<>> /\ ~services.openai) =>
                /\ ~LastOf(setup_log).ok
                /\ RateLimitFailure(LastOf(setup_log)) => Len(SetupTests) = 3
    /\ setup_pc \in {"openai", "test"} => (~services.openai /\ pc = "idle")
    /\ (setup_pc = "done" /\ ~services.openai) => NotInvoked("openai")

\* C27 witness: two rate-limited test requests, each followed by a wait, a
\* third one that succeeded, and a generate_response call answered by OpenAI
C27_TestSucceededOnThirdAttempt ==
    /\ setup_pc = "done"
    /\ Len(setup_log) = 5
    /\ RateLimitFailure(setup_log[1])
    /\ RateLimitFailure(setup_log[3])
    /\ setup_log[5].ok
    /\ services.openai
    /\ pc = "done"
    /\ source = "openai"

(***************************************************************************)
(* Properties of the chat handlers of app.py (checked under SpecApp)       *)
(***************************************************************************)

IsPrefix(a, b) == Len(a) <= Len(b) /\ SubSeq(b, 1, Len(a)) = a

\* C29: a run of a chat handler that comes to its end leaves chat_history
\* as it was, plus a user entry for the input unless the last entry was a
\* user entry already, plus exactly one response entry, which is the one of
\* the simple functions when the chat system is None or has raised; no step
\* removes or changes an entry; and no two user entries follow each other.
C29_HistoryAppendOnlyAlternating ==
    /\ [](\A i \in 1..(Len(chat_history) - 1) :
              ~(IsUserEntry(chat_history[i]) /\ IsUserEntry(chat_history[i + 1])))
    /\ [][IsPrefix(chat_history, chat_history')]_vars
    /\ [][(app_inputs' = app_inputs + 1 /\ app_last'[4] = "handled") =>
            LET added == SubSeq(chat_history', Len(chat_history) + 1, Len(chat_history'))
                skip  == chat_history # <<>> /\ IsUserEntry(LastOf(chat_history))
                resp  == ResponseEntry(RunResponse(app_last'[1], app_last'[2],
                            IF app_last'[3] = "answers" THEN "answers" ELSE "none"))
            IN  added = IF skip THEN <<resp>> ELSE <<UserEntry(app_last'[2]), resp>>]_vars

\* C29 witness: a run was stopped after its user entry, the next run added
\* its response only, and the run after that, whose chat system raised,
\* added a user entry and the simulated response
C29_FallbackAfterStoppedRun ==
    /\ app_inputs = 3
    /\ Len(chat_history) = 4
    /\ IsUserEntry(chat_history[1])
    /\ ~IsUserEntry(chat_history[2])
    /\ IsUserEntry(chat_history[3])
    /\ ~IsUserEntry(chat_history[4])
    /\ app_last = <<"single", "Mars", "raises", "handled">>
    /\ chat_history[4] =
          ResponseEntry(<< <<SelectedType, simulate_mbti_response(SelectedType, "Mars")>> >>)

(***************************************************************************)
(* Properties of format_response (checked under SpecFormat)                *)
(***************************************************************************)

\* the style steps that follow the prefix loop
Style(text, mbti_type, rnd) == AddEmoji(AddEmphasis(text, mbti_type), mbti_type, rnd)

\* the known prefixes the text starts with
MatchingPrefixes(text, mbti_type) ==
    { i \in 1..6 : StartsWith(text, prefixes_to_remove(mbti_type)[i]) }

\* the text with its longest matching prefix removed, or the text itself
LongestPrefixRemoved(text, mbti_type) ==
    LET ps == prefixes_to_remove(mbti_type)
        m  == MatchingPrefixes(text, mbti_type)
    IN  IF m = {} THEN text
        ELSE LET i == CHOOSE j \in m : \A k \in m : Len(ps[k]) <= Len(ps[j])
             IN  Strip(DropFirst(text, Len(ps[i])))

RECURSIVE Removals(_, _, _, _)
\* every <<text, last>> obtained from `text` by removing known prefixes from
\* its start in increasing list position from position i on (trimming after
\* each removal); `last` is the list position of the last prefix removed
Removals(text, prefixes, i, last) ==
    IF i > Len(prefixes) THEN {<<text, last>>}
    ELSE Removals(text, prefixes, i + 1, last)
         \cup (IF StartsWith(text, prefixes[i])
               THEN Removals(Strip(DropFirst(text, Len(prefixes[i]))), prefixes, i + 1, i)
               ELSE {})

\* C7 (as stated): at most one prefix is removed, the longest matching one;
\* the result is the raw text or the raw text less that one prefix, then styled.
C7_AtMostOnePrefixStripped ==
    fpc # "input" =>
        fmt_out = Style(LongestPrefixRemoved(raw_text, fmt_type), fmt_type, fmt_rnd[1])

\* C7 (amended): one pass over the prefix list in list order removes every
\* prefix that matches at its turn: the styled result is the raw text less
\* zero or more known prefixes taken in increasing list position, and no
\* prefix listed after the last removed one is left at the start.
C7_PrefixesStrippedInListOrder ==
    fpc # "input" =>
        \E r \in Removals(raw_text, prefixes_to_remove(fmt_type), 1, 0) :
            /\ fmt_out = Style(r[1], fmt_type, fmt_rnd[1])
            /\ \A i \in (r[2] + 1)..6 :
                   ~StartsWith(r[1], prefixes_to_remove(fmt_type)[i])

\* C7 witness: a text with two stacked prefixes has lost both of them
C7_TwoPrefixesStripped ==
    /\ fpc = "once"
    /\ fmt_type = "INTJ"
    /\ raw_text = "INTJ:Response: hi"
    /\ fmt_out = "hi"

\* C8: with no emoji drawn, formatting the formatted text again changes nothing
C8_FormatIdempotent ==
    (fpc = "twice" /\ fmt_rnd = <<0, 0>>) => fmt_out2 = fmt_out

\* C9 (as stated): an emphatic type gets one "!" appended iff the stripped
\* text ends with neither "!" nor "?"; no other type gets one.
C9_BangIffNoTrailingMark ==
    (fpc # "input" /\ fmt_rnd[1] = 0) =>
        LET text == StripPrefixes(raw_text, fmt_type)
        IN  fmt_out = IF /\ fmt_type \in {"ENFP", "ESFP", "ENFJ", "ENTP"}
                         /\ ~EndsWith(text, "!")
                         /\ ~EndsWith(text, "?")
                      THEN text \o "!" ELSE text

\* C9 (amended): an emphatic type gets one "!" appended iff the stripped
\* text holds no "!" anywhere and does not end with "?"; no other type gets one.
C9_BangIffNoBangAnywhere ==
    (fpc # "input" /\ fmt_rnd[1] = 0) =>
        LET text == StripPrefixes(raw_text, fmt_type)
        IN  fmt_out = IF /\ fmt_type \in {"ENFP", "ESFP", "ENFJ", "ENTP"}
                         /\ \A i \in 1..Len(text) : SubSeq(text, i, i) # "!"
                         /\ ~EndsWith(text, "?")
                      THEN text \o "!" ELSE text

\* C9 witness: an emphatic type whose text holds a "!" but does not end in one
C9_BangNotAppendedAfterInnerBang ==
    /\ fpc = "once"
    /\ fmt_type = "ENTP"
    /\ raw_text = "Wow! ok"
    /\ fmt_out = "Wow! ok"

\* C10: the empty text is returned unchanged, whatever the type
C10_EmptyStaysEmpty ==
    (fpc # "input" /\ raw_text = "") => fmt_out = ""


(***************************************************************************)
(* Properties of generate_mbti_data (checked under SpecImport)             *)
(***************************************************************************)
\* the turns of the retry loop for the pair at hand, a completion request each
ImportCalls == SelectSeq(im_log, LAMBDA ev : ev.ev = "invoke")

\* every turn followed by another one ended in a rate-limit error
OnlyRateLimitRetried ==
    \A i \in 1..Len(ImportCalls) :
        i < Len(ImportCalls) =>
            /\ ~ImportCalls[i].ok
            /\ \/ Contains(Lower(ImportCalls[i].text), "rate limit")
               \/ Contains(Lower(ImportCalls[i].text), "429")

\* the pairs the loops have finished
PairsFinished ==
    (type_idx - 1) * Len(CATEGORIES) + category_idx - (IF im_pc = "next" THEN 0 ELSE 1)

\* what holds of every pair whatever the existence check did
ImportPerPair ==
    /\ Len(ImportCalls) <= 5
    /\ OnlyRateLimitRetried
    /\ im_adds <= 1
    /\ im_pc \in {"check", "generate", "next"} => completed = PairsFinished
    /\ im_returned = "True" => completed = 96

\* C30 as stated: for every (type, category) pair, if data for the pair already
\* exists no completion request and no add is made; otherwise the completion
\* backend is invoked at most 5 times, only rate-limit errors are retried and at
\* most one object is added; completed grows by one per pair and is 96 when the
\* function returns True.
C30_ExistingPairNeverGenerated ==
    /\ ImportPerPair
    /\ im_exists => (ImportCalls = <<>> /\ im_adds = 0)

\* C30, amended: a pair is skipped when the existence check finds its data; when
\* the check finds none or raises, the completion backend is invoked at most 5
\* times, only rate-limit errors are retried and at most one object is added;
\* completed grows by one per pair and is 96 when the function returns True.
C30_FoundPairNeverGenerated ==
    /\ ImportPerPair
    /\ im_checked = "found" => (im_exists /\ ImportCalls = <<>> /\ im_adds = 0)
    /\ (im_pc = "next" /\ im_checked /= "found") => Len(ImportCalls) >= 1
    /\ (im_pc = "next" /\ Len(ImportCalls) < 5 /\ im_adds = 0) =>
            (im_checked = "found" \/ ~LastOf(ImportCalls).ok)

\* the function returned True after the last pair, whose data was absent, took
\* four rate-limited turns and a fifth that added its object
C30_ReturnedTrueAfterFiveTurns ==
    /\ im_returned = "True"
    /\ completed = total_items
    /\ ~im_exists
    /\ Len(ImportCalls) = 5
    /\ im_adds = 1

\* a pair with data on the server whose check raised got an object added
C30_ExistingPairGenerated ==
    /\ im_pc = "next"
    /\ im_exists
    /\ im_checked = "raised"
    /\ im_adds = 1

=============================================================================
